---- MODULE Spec2Model ----
(***************************************************************************)
(* Model of the script binding layer of OpenStarbound:                     *)
(*  - the end-stack tracker driven by the generated ImGui bindings         *)
(*    (source/extern/imgui_iterator.inl), and                              *)
(*  - the temporary-asset callbacks                                        *)
(*    (source/game/scripting/StarLuaAssetBindings.cpp).                    *)
(* Spec is the end-stack tracker inside one script context; AssetSpec is   *)
(* the content store driven by the asset callbacks; ThreadSpec is the      *)
(* lazy construction of that store on two threads; MarshalSpec is one call *)
(* of a bound function, from its arguments to its return values.           *)
(***************************************************************************)
EXTENDS Integers, Sequences, FiniteSets, TLC

VARIABLES
  endStack,     \* the shadow stack of slot ids, bottom first
  nativeOpen,   \* native scopes currently open, as the closing function each needs
  nativeFault,  \* a native closing function ran without its scope on top
  phase,        \* how far the script of the current frame has got
  unwinds,      \* FrameBoundaryUnwind runs in the current frame
  lastCall,     \* what the last binding call did
  initialized,  \* getTemporaryAssetSource: static bool initialized
  tempSource,   \* getTemporaryAssetSource: static MemoryAssetSourcePtr tempSource
  heap,         \* the live MemoryAssetSource objects: id -> (path -> entry)
  registered,   \* the source the Assets system holds for the mount point "/temp"
  lastAsset,    \* what the last asset callback did
  pc,           \* per thread: the statement of its callback it is about to run
  held,         \* per thread: the pointer getTemporaryAssetSource() returned to it
  completed,    \* per thread: the callbacks it has completed
  bound         \* the call of a bound function being marshalled, and its outcome

stackVars == <<endStack, nativeOpen, nativeFault, phase, unwinds, lastCall>>
assetVars == <<initialized, tempSource, heap, registered, lastAsset>>
threadVars == <<pc, held, completed, bound>>
vars == <<endStack, nativeOpen, nativeFault, phase, unwinds, lastCall,
          initialized, tempSource, heap, registered, lastAsset, pc, held, completed, bound>>

\* ------------------------------------------------------------------ bounds

\* Deepest shadow stack and deepest native scope nesting a script of the model opens.
MaxDepth == 3
\* Callbacks each thread makes.
MaxCalls == 2
\* Arguments of one call that are not the plain well-typed value.
MaxOdd == 2

\* Largest count a script passes to PopStyleVar.
MaxCount == 2

\* ------------------------------------------------- the binding table (data)

\* The slot field of a binding that ends without an end-stack macro.
NoSlot == 0 - 1

\* END_STACK_OPTION with the closing functions from slot 5 on listed one slot late.
END_STACK_OPTION_OffByOne ==
  (0 :> "EndFrame") @@ (1 :> "End") @@ (2 :> "EndChild") @@ (3 :> "PopStyleVar") @@
  (4 :> "EndGroup") @@ (6 :> "EndCombo") @@ (7 :> "TreePop") @@ (8 :> "EndListBox") @@
  (9 :> "EndMenuBar") @@ (10 :> "EndMainMenuBar") @@ (11 :> "EndMenu") @@
  (12 :> "EndTooltip") @@ (13 :> "EndPopup") @@ (14 :> "EndTable") @@
  (15 :> "EndTabBar") @@ (16 :> "EndTabItem") @@ (17 :> "EndDragDropSource") @@
  (18 :> "EndDragDropTarget") @@ (19 :> "EndDisabled")

\* END_STACK_OPTION with the closing functions of the window and child-window
\* slots exchanged.
END_STACK_OPTION_WindowChildSwapped ==
  (0 :> "EndFrame") @@ (1 :> "EndChild") @@ (2 :> "End") @@ (3 :> "PopStyleVar") @@
  (4 :> "EndGroup") @@ (5 :> "EndCombo") @@ (6 :> "TreePop") @@ (7 :> "EndListBox") @@
  (8 :> "EndMenuBar") @@ (9 :> "EndMainMenuBar") @@ (10 :> "EndMenu") @@
  (11 :> "EndTooltip") @@ (13 :> "EndPopup") @@ (14 :> "EndTable") @@
  (15 :> "EndTabBar") @@ (16 :> "EndTabItem") @@ (17 :> "EndDragDropSource") @@
  (18 :> "EndDragDropTarget") @@ (19 :> "EndDisabled")

\* END_STACK_START .. END_STACK_END: slot -> native closing function.
END_STACK_OPTION ==
  (0 :> "EndFrame") @@ (1 :> "End") @@ (2 :> "EndChild") @@ (3 :> "PopStyleVar") @@
  (4 :> "EndGroup") @@ (5 :> "EndCombo") @@ (6 :> "TreePop") @@ (7 :> "EndListBox") @@
  (8 :> "EndMenuBar") @@ (9 :> "EndMainMenuBar") @@ (10 :> "EndMenu") @@
  (11 :> "EndTooltip") @@ (13 :> "EndPopup") @@ (14 :> "EndTable") @@
  (15 :> "EndTabBar") @@ (16 :> "EndTabItem") @@ (17 :> "EndDragDropSource") @@
  (18 :> "EndDragDropTarget") @@ (19 :> "EndDisabled")

\* One descriptor of an opening binding: the macro it ends with, the slot that
\* macro names, and the native closing function the header comments pair the
\* native call with.
Opening(name, push, slot, closer) ==
  [name |-> name, push |-> push, slot |-> slot, closer |-> closer]

\* Bindings that call a native scope-opening function and return its bool:
\* IF_RET_ADD_END_STACK(slot) follows CALL_FUNCTION(f, bool, ...).
ConditionalOpenings == {
  Opening("Begin", "IF_RET_ADD_END_STACK", 1, "End"),
  Opening("BeginChild", "IF_RET_ADD_END_STACK", 2, "EndChild"),
  Opening("BeginChild_4", "IF_RET_ADD_END_STACK", 2, "EndChild"),
  Opening("BeginCombo", "IF_RET_ADD_END_STACK", 5, "EndCombo"),
  Opening("TreeNode", "IF_RET_ADD_END_STACK", 6, "TreePop"),
  Opening("TreeNode_3", "IF_RET_ADD_END_STACK", 6, "TreePop"),
  Opening("BeginListBox", "IF_RET_ADD_END_STACK", 7, "EndListBox"),
  Opening("BeginMenuBar", "IF_RET_ADD_END_STACK", 8, "EndMenuBar"),
  Opening("BeginMainMenuBar", "IF_RET_ADD_END_STACK", 9, "EndMainMenuBar"),
  Opening("BeginMenu", "IF_RET_ADD_END_STACK", 10, "EndMenu"),
  Opening("BeginTooltip", "IF_RET_ADD_END_STACK", 11, "EndTooltip"),
  Opening("BeginItemTooltip", "IF_RET_ADD_END_STACK", 12, "EndTooltip"),
  Opening("BeginPopup", "IF_RET_ADD_END_STACK", 13, "EndPopup"),
  Opening("BeginPopupModal", "IF_RET_ADD_END_STACK", 13, "EndPopup"),
  Opening("BeginPopupContextItem", "IF_RET_ADD_END_STACK", 13, "EndPopup"),
  Opening("BeginPopupContextWindow", "IF_RET_ADD_END_STACK", 13, "EndPopup"),
  Opening("BeginPopupContextVoid", "IF_RET_ADD_END_STACK", 13, "EndPopup"),
  Opening("BeginTable", "IF_RET_ADD_END_STACK", 14, "EndTable"),
  Opening("BeginTabBar", "IF_RET_ADD_END_STACK", 15, "EndTabBar"),
  Opening("BeginTabItem", "IF_RET_ADD_END_STACK", 16, "EndTabItem"),
  Opening("BeginDragDropSource", "IF_RET_ADD_END_STACK", 17, "EndDragDropSource"),
  Opening("BeginDragDropTarget", "IF_RET_ADD_END_STACK", 18, "EndDragDropTarget") }

\* Bindings that call a void native scope-opening function: ADD_END_STACK(slot)
\* follows CALL_FUNCTION_NO_RET(f, ...).
UnconditionalOpenings == {
  Opening("PushStyleVar", "ADD_END_STACK", 3, "PopStyleVar"),
  Opening("PushStyleVar_2", "ADD_END_STACK", 3, "PopStyleVar"),
  Opening("BeginGroup", "ADD_END_STACK", 4, "EndGroup"),
  Opening("TreePush", "ADD_END_STACK", 6, "TreePop"),
  Opening("BeginDisabled", "ADD_END_STACK", 19, "EndDisabled") }

\* Bindings whose native call opens a scope that a function of the end-stack
\* option table closes, and that end without any end-stack macro.
UntrackedOpenings == {
  Opening("TreeNodeEx", "none", NoSlot, "TreePop"),
  Opening("TreeNodeEx_4", "none", NoSlot, "TreePop"),
  Opening("PushStyleVarX", "none", NoSlot, "PopStyleVar"),
  Opening("PushStyleVarY", "none", NoSlot, "PopStyleVar") }

\* The untracked openings whose native function returns a bool.
ReturnsBool == {"TreeNodeEx", "TreeNodeEx_4"}

OpeningBindings == ConditionalOpenings \cup UnconditionalOpenings \cup UntrackedOpenings

Closing(name, slot) == [name |-> name, slot |-> slot]

\* Bindings of the form CALL_FUNCTION_NO_RET(f ...) POP_END_STACK(slot); the native
\* function called has the binding's name.
ClosingBindings == {
  Closing("EndFrame", 0), Closing("End", 1), Closing("EndChild", 2),
  Closing("PopStyleVar", 3), Closing("EndGroup", 4), Closing("EndCombo", 5),
  Closing("TreePop", 6), Closing("EndListBox", 7), Closing("EndMenuBar", 8),
  Closing("EndMainMenuBar", 9), Closing("EndMenu", 10), Closing("EndTooltip", 11),
  Closing("EndPopup", 13), Closing("EndTable", 14), Closing("EndTabBar", 15),
  Closing("EndTabItem", 16), Closing("EndDragDropSource", 17),
  Closing("EndDragDropTarget", 18), Closing("EndDisabled", 19) }

\* The bindings the scripts of the model call: the window, style-var, tree and
\* item-tooltip scopes, one binding of each shape the table has for them.  The
\* bindings left out repeat the shape of one that is in.
ScriptCalls ==
  {"Begin", "PushStyleVar", "PushStyleVarX", "TreeNode", "TreePush", "TreeNodeEx",
   "BeginItemTooltip", "End", "PopStyleVar", "TreePop", "EndTooltip", "EndFrame"}

ScriptOpenings == {b \in OpeningBindings : b.name \in ScriptCalls}
ScriptClosings == {b \in ClosingBindings : b.name \in ScriptCalls}
\* The slots those bindings name.
ScriptSlots == {b.slot : b \in ScriptOpenings \cup ScriptClosings} \ {NoSlot}

\* ------------------------------------------------------ the native widget API

\* A native opening call that succeeds leaves one more scope open, to be closed
\* by `closer`.
NativeOpenScope(nat, closer) == Append(nat, closer)

\* Whether the innermost `count` open scopes are all closed by f.
NativeTopIs(nat, f, count) ==
  /\ Len(nat) >= count
  /\ \A i \in 1..count : nat[Len(nat) - i + 1] = f

\* The native closing function f run `count` scopes deep: it closes the innermost
\* scopes when they are f's; otherwise the native API's behaviour is undefined,
\* and it either leaves its stack alone or drops the innermost scope.
NativeCloseOutcomes(nat, f, count) ==
  IF NativeTopIs(nat, f, count)
  THEN {[open |-> SubSeq(nat, 1, Len(nat) - count), fault |-> FALSE]}
  ELSE {[open |-> nat, fault |-> TRUE]} \cup
       (IF nat = <<>> THEN {} ELSE {[open |-> SubSeq(nat, 1, Len(nat) - 1), fault |-> TRUE]})

\* The native states after running the closing functions `calls` in order, each
\* with its default count.
RECURSIVE NativeRun(_, _, _)
NativeRun(nat, fault, calls) ==
  IF calls = <<>> THEN {[open |-> nat, fault |-> fault]}
  ELSE UNION { NativeRun(o.open, fault \/ o.fault, Tail(calls)) :
               o \in NativeCloseOutcomes(nat, Head(calls), 1) }

\* ------------------------------------------------------ the end-stack macros

\* ADD_END_STACK(slot): push the slot.
ADD_END_STACK(stack, slot) == Append(stack, slot)

\* IF_RET_ADD_END_STACK(slot): push the slot when the native call returned true.
IF_RET_ADD_END_STACK(stack, ret, slot) == IF ret THEN Append(stack, slot) ELSE stack

\* POP_END_STACK(slot): pop the top entry when it is `slot`, else raise.
POP_END_STACK(stack, slot) ==
  IF stack # <<>> /\ stack[Len(stack)] = slot
  THEN [stack |-> SubSeq(stack, 1, Len(stack) - 1), err |-> FALSE]
  ELSE [stack |-> stack, err |-> TRUE]

\* The calls the switch of END_STACK_START .. END_STACK_END makes for the entries
\* `stack`, top entry first; a slot without an END_STACK_OPTION line has no case.
RECURSIVE EndStackCalls(_)
EndStackCalls(stack) ==
  IF stack = <<>> THEN <<>>
  ELSE LET top == stack[Len(stack)]
           rest == SubSeq(stack, 1, Len(stack) - 1)
       IN  (IF top \in DOMAIN END_STACK_OPTION THEN <<END_STACK_OPTION[top]>> ELSE <<>>)
           \o EndStackCalls(rest)

\* PushOf with IF_RET_ADD_END_STACK pushing whatever the native call returned.
PushOf_IgnoresRet(b, stack, ret) ==
  IF b.push \in {"ADD_END_STACK", "IF_RET_ADD_END_STACK"} THEN Append(stack, b.slot) ELSE stack

\* What the stack pushes after one opening binding's macro has run.
PushOf(b, stack, ret) ==
  CASE b.push = "ADD_END_STACK" -> ADD_END_STACK(stack, b.slot)
    [] b.push = "IF_RET_ADD_END_STACK" -> IF_RET_ADD_END_STACK(stack, ret, b.slot)
    [] OTHER -> stack

\* The values the native function of an opening binding can return.
Returns(b) ==
  IF b.push = "IF_RET_ADD_END_STACK" \/ b.name \in ReturnsBool THEN BOOLEAN ELSE {TRUE}

NoCall ==
  [name |-> "none", ret |-> FALSE, count |-> 0, err |-> FALSE,
   before |-> <<>>, invoked |-> <<>>]

\* ------------------------------------------------------------------- actions

\* An opening binding: CALL_FUNCTION / CALL_FUNCTION_NO_RET, then its end-stack macro.
OpenCall(b, ret) ==
  /\ phase = "running"
  /\ Len(endStack) < MaxDepth
  /\ Len(nativeOpen) < MaxDepth
  /\ nativeOpen' = IF ret THEN NativeOpenScope(nativeOpen, b.closer) ELSE nativeOpen
  /\ endStack' = PushOf(b, endStack, ret)
  /\ lastCall' = [name |-> b.name, ret |-> ret, count |-> 0, err |-> FALSE,
                  before |-> endStack, invoked |-> <<b.name>>]
  /\ UNCHANGED <<nativeFault, phase, unwinds>>

\* CloseCall for a binding written without its POP_END_STACK line.
CloseCall_WithoutPop(b, count) ==
  /\ phase = "running"
  /\ \E o \in NativeCloseOutcomes(nativeOpen, b.name, count) :
       /\ nativeOpen' = o.open
       /\ nativeFault' = (nativeFault \/ o.fault)
  /\ lastCall' = [name |-> b.name, ret |-> FALSE, count |-> count, err |-> FALSE,
                  before |-> endStack, invoked |-> <<b.name>>]
  /\ UNCHANGED <<endStack, phase, unwinds>>

\* A closing binding: CALL_FUNCTION_NO_RET(f [, count]) first, POP_END_STACK(slot) after.
CloseCall(b, count) ==
  /\ phase = "running"
  /\ \E o \in NativeCloseOutcomes(nativeOpen, b.name, count) :
       /\ nativeOpen' = o.open
       /\ nativeFault' = (nativeFault \/ o.fault)
  /\ LET r == POP_END_STACK(endStack, b.slot)
     IN  /\ endStack' = r.stack
         /\ lastCall' = [name |-> b.name, ret |-> FALSE, count |-> count, err |-> r.err,
                         before |-> endStack, invoked |-> <<b.name>>]
  /\ UNCHANGED <<phase, unwinds>>

\* ForcedUnwindToDepth(slot): pop down to and including the first entry of `slot`
\* from the top, closing each popped entry; an error when no entry has that slot.
ForcedUnwindToDepth(slot) ==
  /\ phase = "running"
  /\ IF \E i \in 1..Len(endStack) : endStack[i] = slot
     THEN LET k == CHOOSE i \in 1..Len(endStack) :
                     /\ endStack[i] = slot
                     /\ \A j \in (i + 1)..Len(endStack) : endStack[j] # slot
              calls == EndStackCalls(SubSeq(endStack, k, Len(endStack)))
          IN  /\ endStack' = SubSeq(endStack, 1, k - 1)
              /\ \E o \in NativeRun(nativeOpen, nativeFault, calls) :
                   /\ nativeOpen' = o.open
                   /\ nativeFault' = o.fault
              /\ lastCall' = [name |-> "ForcedUnwindToDepth", ret |-> FALSE, count |-> slot,
                              err |-> FALSE, before |-> endStack, invoked |-> calls]
     ELSE /\ lastCall' = [name |-> "ForcedUnwindToDepth", ret |-> FALSE, count |-> slot,
                          err |-> TRUE, before |-> endStack, invoked |-> <<>>]
          /\ UNCHANGED <<endStack, nativeOpen, nativeFault>>
  /\ UNCHANGED <<phase, unwinds>>

\* The script of the frame ends: it returns, raises, or is cancelled by the host.
ScriptEnds(how) ==
  /\ phase = "running"
  /\ phase' = how
  /\ lastCall' = NoCall
  /\ UNCHANGED <<endStack, nativeOpen, nativeFault, unwinds>>

\* FrameBoundaryUnwind: close every entry still on the shadow stack, top first.
FrameBoundaryUnwind ==
  /\ phase # "running"
  /\ unwinds = 0
  /\ LET calls == EndStackCalls(endStack)
     IN  /\ \E o \in NativeRun(nativeOpen, nativeFault, calls) :
              /\ nativeOpen' = o.open
              /\ nativeFault' = o.fault
         /\ lastCall' = [name |-> "FrameBoundaryUnwind", ret |-> FALSE, count |-> 0,
                         err |-> FALSE, before |-> endStack, invoked |-> calls]
  /\ endStack' = <<>>
  /\ unwinds' = unwinds + 1
  /\ UNCHANGED phase

\* NextFrame dispatched whether or not the frame's unwind has run.
NextFrame_SkipsUnwind ==
  /\ phase # "running"
  /\ phase' = "running"
  /\ unwinds' = 0
  /\ nativeOpen' = <<>>
  /\ nativeFault' = FALSE
  /\ lastCall' = NoCall
  /\ UNCHANGED endStack

\* The host dispatches the next frame's script.
NextFrame ==
  /\ phase # "running"
  /\ unwinds = 1
  /\ phase' = "running"
  /\ unwinds' = 0
  /\ nativeOpen' = <<>>
  /\ nativeFault' = FALSE
  /\ lastCall' = NoCall
  /\ UNCHANGED endStack


\* ------------------------------------------------- the temporary asset store

\* The prefix written without its trailing slash.
TempPrefix_NoSlash == <<"/", "t", "e", "m", "p">>

\* Strings are sequences of characters, so that beginsWith is computed.
TempPrefix == <<"/", "t", "e", "m", "p", "/">>

\* String::beginsWith.
beginsWith(str, prefix) ==
  /\ Len(str) >= Len(prefix)
  /\ SubSeq(str, 1, Len(prefix)) = prefix

\* The paths scripts pass: two under the prefix, the bare prefix, the mount point
\* without its trailing slash, and a path elsewhere.
Paths ==
  { TempPrefix \o <<"a">>, TempPrefix \o <<"b">>, TempPrefix,
    <<"/", "t", "e", "m", "p">>, <<"/", "o", "/", "a">> }

\* The script values passed as `data`: a string, an image userdata, a table and
\* a function.
LuaValues ==
  { [type |-> "string", v |-> <<"x">>], [type |-> "image", v |-> [w |-> 1, h |-> 1]],
    [type |-> "table", v |-> <<>>], [type |-> "function", v |-> <<>>] }

\* The strings passed as `bytes`: a PNG of a 1x1 image, a PNG of a 0x0 image, a
\* PNG of a 0x1 image, and text that is no PNG.
ByteStrings == { <<"P", "1">>, <<"P", "0">>, <<"P", "0", "1">>, <<"y">> }
\* Those passed to makeAssetFromBytes.
RawByteStrings == { <<"P", "1">>, <<"y">> }

\* A Maybe<T>: the empty sequence, or the value alone.
None == <<>>
Some(v) == <<v>>

\* LuaEngine::luaMaybeTo<String>.
luaMaybeToString(data) == IF data.type = "string" THEN Some(data.v) ELSE None

\* LuaEngine::luaMaybeTo<Image>.
luaMaybeToImage(data) == IF data.type = "image" THEN Some(data.v) ELSE None

\* LuaEngine::luaTo<Json>(data).repr(): the JSON text of the value; the
\* conversion throws for a value with no JSON form.
luaToJsonRepr(data) ==
  CASE data.type = "string" -> Some(<<"\"">> \o data.v \o <<"\"">>)
    [] data.type = "table" -> Some(<<"{", "}">>)
    [] OTHER -> None

\* Image::readPng: the decoded image, or nothing when decoding throws.
readPng(bytes) ==
  CASE bytes = <<"P", "1">> -> Some([w |-> 1, h |-> 1])
    [] bytes = <<"P", "0">> -> Some([w |-> 0, h |-> 0])
    [] bytes = <<"P", "0", "1">> -> Some([w |-> 0, h |-> 1])
    [] OTHER -> None

BytesEntry(bytes) == [kind |-> "bytes", payload |-> bytes]
ImageEntry(image) == [kind |-> "image", payload |-> image]

\* A MemoryAssetSource as constructed: no entries.
EmptySource == [p \in {} |-> None]

\* MemoryAssetSource::set: insert or overwrite.
SourceSet(source, path, entry) ==
  [p \in DOMAIN source \cup {path} |-> IF p = path THEN entry ELSE source[p]]

\* MemoryAssetSource::contains.
SourceContains(source, path) == path \in DOMAIN source

\* MemoryAssetSource::erase: the source without the entry.
SourceErase(source, path) == [p \in DOMAIN source \ {path} |-> source[p]]

\* Image::writePng: the PNG bytes of an image, the ones readPng decodes to it.
writePng(image) ==
  CASE image = [w |-> 1, h |-> 1] -> <<"P", "1">>
    [] image = [w |-> 0, h |-> 0] -> <<"P", "0">>
    [] image = [w |-> 0, h |-> 1] -> <<"P", "0", "1">>

\* MemoryAssetSource::read: the bytes of the entry (an image entry is encoded).
SourceRead(source, path) ==
  IF source[path].kind = "bytes" THEN source[path].payload
  ELSE writePng(source[path].payload)

\* MemoryAssetSource::image: the image of an image entry.
SourceImage(source, path) ==
  IF path \in DOMAIN source /\ source[path].kind = "image"
  THEN Some(source[path].payload) ELSE None

\* The process state the callbacks work on, as one record.
AssetState ==
  [initialized |-> initialized, tempSource |-> tempSource, heap |-> heap,
   registered |-> registered, log |-> <<>>]

\* make_shared<MemoryAssetSource>: the address of the new object.
NewId(st) == CHOOSE i \in 1..(Cardinality(DOMAIN st.heap) + 1) : i \notin DOMAIN st.heap

make_shared(st) == [st EXCEPT !.heap = (NewId(st) :> EmptySource) @@ st.heap]

\* Assets::addRuntimeSource("/temp", source): the new handle supersedes the old.
addRuntimeSource(st, source) == [st EXCEPT !.registered = source]

\* Logger::info.
LogInfo(st, line) == [st EXCEPT !.log = Append(st.log, line)]

\* getTemporaryAssetSource(): the state after the call; the pointer returned (by
\* value) is the tempSource of that state.
getTemporaryAssetSource(st) ==
  IF ~st.initialized
  THEN LET made == make_shared(st)
           id == NewId(st)
       IN  LogInfo([addRuntimeSource(made, id) EXCEPT !.tempSource = id, !.initialized = TRUE],
                   "Initialized temporary asset source")
  ELSE st

\* tempSource->set(path, entry) through the pointer `source`.
SetIn(st, source, path, entry) ==
  [st EXCEPT !.heap[source] = SourceSet(st.heap[source], path, entry)]

\* A shared_ptr going out of scope: objects nothing refers to any more are freed.
Release(st) ==
  [st EXCEPT !.heap = [i \in DOMAIN st.heap \cap {st.tempSource, st.registered} |-> st.heap[i]]]

NoAssetCall ==
  [name |-> "none", path |-> <<>>, arg |-> <<>>, err |-> "none", ret |-> None, log |-> <<>>,
   newSource |-> 0, afterClear |-> FALSE, afterOverwrite |-> FALSE, before |-> [initialized |-> FALSE, tempSource |-> 0,
                                heap |-> <<>>, registered |-> 0, log |-> <<>>]]

\* The last call replaced the entry at its path by a different one.
Overwrote ==
  /\ lastAsset.err = "none"
  /\ lastAsset.before.initialized
  /\ lastAsset.path \in DOMAIN lastAsset.before.heap[lastAsset.before.tempSource]
  /\ lastAsset.path \in DOMAIN heap[tempSource]
  /\ heap[tempSource][lastAsset.path] #
       lastAsset.before.heap[lastAsset.before.tempSource][lastAsset.path]

\* The callback `name` ends in state st, having raised `err` ("none": it returned ret).
Finish(name, path, arg, st, err, ret, newSource) ==
  /\ initialized' = st.initialized
  /\ tempSource' = st.tempSource
  /\ heap' = st.heap
  /\ registered' = st.registered
  /\ lastAsset' = [name |-> name, path |-> path, arg |-> arg, err |-> err, ret |-> ret,
                   log |-> st.log, newSource |-> newSource,
                   afterClear |-> (lastAsset.name = "clearTemporaryAssets"),
                   afterOverwrite |-> Overwrote,
                   before |-> AssetState]

\* makeAsset probing for the JSON form before the string and the image.
makeAsset_JsonFirst(path, data) ==
  IF ~beginsWith(path, TempPrefix)
  THEN Finish("makeAsset", path, data, AssetState, "prefix", None, 0)
  ELSE LET st == getTemporaryAssetSource(AssetState)
           src == st.tempSource
           done(s) == Finish("makeAsset", path, data, addRuntimeSource(s, src), "none", Some(path), 0)
       IN  IF luaToJsonRepr(data) # None
           THEN done(LogInfo(SetIn(st, src, path, BytesEntry(luaToJsonRepr(data)[1])),
                             "Created temporary asset (JSON)"))
           ELSE IF luaMaybeToString(data) # None
           THEN done(LogInfo(SetIn(st, src, path, BytesEntry(luaMaybeToString(data)[1])),
                             "Created temporary asset (bytes)"))
           ELSE IF luaMaybeToImage(data) # None
           THEN done(SetIn(LogInfo(st, "Created temporary asset (image)"), src, path,
                           ImageEntry(luaMaybeToImage(data)[1])))
           ELSE Finish("makeAsset", path, data, st, "conversion", None, 0)

\* callbacks.registerCallback("makeAsset", ...).
makeAsset(path, data) ==
  IF ~beginsWith(path, TempPrefix)
  THEN Finish("makeAsset", path, data, AssetState, "prefix", None, 0)
  ELSE LET st == getTemporaryAssetSource(AssetState)
           src == st.tempSource
           done(s) == Finish("makeAsset", path, data, addRuntimeSource(s, src), "none", Some(path), 0)
       IN  IF luaMaybeToString(data) # None
           THEN done(LogInfo(SetIn(st, src, path, BytesEntry(luaMaybeToString(data)[1])),
                             "Created temporary asset (bytes)"))
           ELSE IF luaMaybeToImage(data) # None
           THEN done(SetIn(LogInfo(st, "Created temporary asset (image)"), src, path,
                           ImageEntry(luaMaybeToImage(data)[1])))
           ELSE IF luaToJsonRepr(data) = None
           THEN Finish("makeAsset", path, data, st, "conversion", None, 0)
           ELSE done(LogInfo(SetIn(st, src, path, BytesEntry(luaToJsonRepr(data)[1])),
                             "Created temporary asset (JSON)"))

\* makeAssetFromBytes keeping the entry a path already has.
makeAssetFromBytes_InsertOnly(path, bytes) ==
  IF ~beginsWith(path, TempPrefix)
  THEN Finish("makeAssetFromBytes", path, bytes, AssetState, "prefix", None, 0)
  ELSE LET st == getTemporaryAssetSource(AssetState)
           src == st.tempSource
           set == IF SourceContains(st.heap[src], path) THEN st
                  ELSE SetIn(st, src, path, BytesEntry(bytes))
       IN  Finish("makeAssetFromBytes", path, bytes,
                  addRuntimeSource(LogInfo(set, "Created temporary asset"), src), "none",
                  Some(path), 0)

\* makeAssetFromBytes fetching the source before it checks the path.
makeAssetFromBytes_LateCheck(path, bytes) ==
  LET st == getTemporaryAssetSource(AssetState)
      src == st.tempSource
      set == LogInfo(SetIn(st, src, path, BytesEntry(bytes)), "Created temporary asset")
  IN  IF ~beginsWith(path, TempPrefix)
      THEN Finish("makeAssetFromBytes", path, bytes, st, "prefix", None, 0)
      ELSE Finish("makeAssetFromBytes", path, bytes, addRuntimeSource(set, src), "none",
                  Some(path), 0)

\* callbacks.registerCallback("makeAssetFromBytes", ...).
makeAssetFromBytes(path, bytes) ==
  IF ~beginsWith(path, TempPrefix)
  THEN Finish("makeAssetFromBytes", path, bytes, AssetState, "prefix", None, 0)
  ELSE LET st == getTemporaryAssetSource(AssetState)
           src == st.tempSource
           set == LogInfo(SetIn(st, src, path, BytesEntry(bytes)), "Created temporary asset")
       IN  Finish("makeAssetFromBytes", path, bytes, addRuntimeSource(set, src), "none", Some(path), 0)

\* makeImageFromBytes storing the decoded image before it looks at its size.
makeImageFromBytes_StoreFirst(path, bytes) ==
  IF ~beginsWith(path, TempPrefix)
  THEN Finish("makeImageFromBytes", path, bytes, AssetState, "prefix", None, 0)
  ELSE IF readPng(bytes) = None
  THEN Finish("makeImageFromBytes", path, bytes, AssetState, "decode", None, 0)
  ELSE LET st == getTemporaryAssetSource(AssetState)
           src == st.tempSource
           set == SetIn(st, src, path, ImageEntry(readPng(bytes)[1]))
       IN  IF readPng(bytes)[1].w = 0 \/ readPng(bytes)[1].h = 0
           THEN Finish("makeImageFromBytes", path, bytes, set, "zero-area", Some(Len(bytes)), 0)
           ELSE Finish("makeImageFromBytes", path, bytes,
                       addRuntimeSource(LogInfo(set, "Created temporary image"), src), "none",
                       Some(path), 0)

\* makeImageFromBytes written without its check of the path.
makeImageFromBytes_NoPrefixCheck(path, bytes) ==
  IF readPng(bytes) = None
  THEN Finish("makeImageFromBytes", path, bytes, AssetState, "decode", None, 0)
  ELSE IF readPng(bytes)[1].w = 0 \/ readPng(bytes)[1].h = 0
  THEN Finish("makeImageFromBytes", path, bytes, AssetState, "zero-area", Some(Len(bytes)), 0)
  ELSE LET st == getTemporaryAssetSource(AssetState)
           src == st.tempSource
           set == LogInfo(SetIn(st, src, path, ImageEntry(readPng(bytes)[1])),
                          "Created temporary image")
       IN  Finish("makeImageFromBytes", path, bytes, addRuntimeSource(set, src), "none", Some(path), 0)

\* callbacks.registerCallback("makeImageFromBytes", ...).
makeImageFromBytes(path, bytes) ==
  IF ~beginsWith(path, TempPrefix)
  THEN Finish("makeImageFromBytes", path, bytes, AssetState, "prefix", None, 0)
  ELSE IF readPng(bytes) = None
  THEN Finish("makeImageFromBytes", path, bytes, AssetState, "decode", None, 0)
  ELSE IF readPng(bytes)[1].w = 0 \/ readPng(bytes)[1].h = 0
  THEN Finish("makeImageFromBytes", path, bytes, AssetState, "zero-area", Some(Len(bytes)), 0)
  ELSE LET st == getTemporaryAssetSource(AssetState)
           src == st.tempSource
           set == LogInfo(SetIn(st, src, path, ImageEntry(readPng(bytes)[1])),
                          "Created temporary image")
       IN  Finish("makeImageFromBytes", path, bytes, addRuntimeSource(set, src), "none", Some(path), 0)

\* callbacks.registerCallback("getTemporaryAsset", ...).
getTemporaryAsset(path) ==
  LET st == getTemporaryAssetSource(AssetState)
      source == st.heap[st.tempSource]
  IN  Finish("getTemporaryAsset", path, <<>>, st, "none",
             IF SourceContains(source, path) THEN Some(SourceRead(source, path)) ELSE None, 0)

\* callbacks.registerCallback("getTemporaryImage", ...).
getTemporaryImage(path) ==
  LET st == getTemporaryAssetSource(AssetState)
  IN  Finish("getTemporaryImage", path, <<>>, st, "none",
             SourceImage(st.heap[st.tempSource], path), 0)

\* hasTemporaryAsset answering from image(path) instead of contains(path).
hasTemporaryAsset_ViaImage(path) ==
  LET st == getTemporaryAssetSource(AssetState)
  IN  Finish("hasTemporaryAsset", path, <<>>, st, "none",
             Some(SourceImage(st.heap[st.tempSource], path) # None), 0)

\* callbacks.registerCallback("hasTemporaryAsset", ...).
hasTemporaryAsset(path) ==
  LET st == getTemporaryAssetSource(AssetState)
  IN  Finish("hasTemporaryAsset", path, <<>>, st, "none",
             Some(SourceContains(st.heap[st.tempSource], path)), 0)

\* removeTemporaryAsset logging whether or not erase found an entry.
removeTemporaryAsset_AlwaysLogs(path) ==
  LET st == getTemporaryAssetSource(AssetState)
      src == st.tempSource
      erased == [st EXCEPT !.heap[src] = SourceErase(st.heap[src], path)]
  IN  Finish("removeTemporaryAsset", path, <<>>, LogInfo(erased, "Removed temporary asset"),
             "none", None, 0)

\* callbacks.registerCallback("removeTemporaryAsset", ...).
removeTemporaryAsset(path) ==
  LET st == getTemporaryAssetSource(AssetState)
      src == st.tempSource
      erased == [st EXCEPT !.heap[src] = SourceErase(st.heap[src], path)]
  IN  IF SourceContains(st.heap[src], path)
      THEN Finish("removeTemporaryAsset", path, <<>>, LogInfo(erased, "Removed temporary asset"),
                  "none", None, 0)
      ELSE Finish("removeTemporaryAsset", path, <<>>, st, "none", None, 0)

\* clearTemporaryAssets assigning newSource to the static tempSource itself,
\* without registering it.
clearTemporaryAssets_AssignsStatic ==
  LET made == make_shared(AssetState)
      newSource == NewId(AssetState)
      st == getTemporaryAssetSource(made)
      assigned == [st EXCEPT !.tempSource = newSource]
  IN  Finish("clearTemporaryAssets", <<>>, <<>>,
             Release(LogInfo(assigned, "Cleared all temporary assets")), "none", None, newSource)

\* callbacks.registerCallback("clearTemporaryAssets", ...): newSource is made, then
\* assigned to the MemoryAssetSourcePtr that getTemporaryAssetSource() returned by
\* value, a temporary; the static tempSource is not written, and newSource is
\* released when the callback returns.
clearTemporaryAssets ==
  LET made == make_shared(AssetState)
      newSource == NewId(AssetState)
      st == getTemporaryAssetSource(made)
  IN  Finish("clearTemporaryAssets", <<>>, <<>>, Release(LogInfo(st, "Cleared all temporary assets")),
             "none", None, newSource)

AssetNext ==
  \/ \E path \in Paths : \E data \in LuaValues : makeAsset(path, data) /\ UNCHANGED <<stackVars, threadVars>>
  \/ \E path \in Paths : \E bytes \in RawByteStrings :
       makeAssetFromBytes(path, bytes) /\ UNCHANGED <<stackVars, threadVars>>
  \/ \E path \in Paths : \E bytes \in ByteStrings :
       makeImageFromBytes(path, bytes) /\ UNCHANGED <<stackVars, threadVars>>
  \/ \E path \in Paths : getTemporaryAsset(path) /\ UNCHANGED <<stackVars, threadVars>>
  \/ \E path \in Paths : getTemporaryImage(path) /\ UNCHANGED <<stackVars, threadVars>>
  \/ \E path \in Paths : hasTemporaryAsset(path) /\ UNCHANGED <<stackVars, threadVars>>
  \/ \E path \in Paths : removeTemporaryAsset(path) /\ UNCHANGED <<stackVars, threadVars>>
  \/ clearTemporaryAssets /\ UNCHANGED <<stackVars, threadVars>>

\* ------------------------------------------- callbacks on two script threads

\* The threads that run script contexts, and the path each one writes.
Threads == {"t1", "t2"}
PathOf(t) == IF t = "t1" THEN TempPrefix \o <<"a">> ELSE TempPrefix \o <<"b">>

\* The shared state a thread's statement leaves: nothing of it is locked, and
\* the statements of two threads interleave.
Shared(st) ==
  /\ initialized' = st.initialized
  /\ tempSource' = st.tempSource
  /\ heap' = st.heap
  /\ registered' = st.registered

Goto(t, label) == pc' = [pc EXCEPT ![t] = label]

\* makeAssetFromBytes(PathOf(t), "y") is called on thread t: the prefix check
\* passes and getTemporaryAssetSource() is entered.
ThreadCall(t) ==
  /\ pc[t] = "idle"
  /\ completed[t] < MaxCalls
  /\ beginsWith(PathOf(t), TempPrefix)
  /\ Goto(t, "check")
  /\ UNCHANGED <<initialized, tempSource, heap, registered, held, completed>>

\* if (!initialized)
ThreadCheck(t) ==
  /\ pc[t] = "check"
  /\ Goto(t, IF initialized THEN "return" ELSE "construct")
  /\ UNCHANGED <<initialized, tempSource, heap, registered, held, completed>>

\* tempSource = make_shared<MemoryAssetSource>("temp", metadata); the object the
\* static pointed to lives on while a thread or the Assets system refers to it.
ThreadConstruct(t) ==
  /\ pc[t] = "construct"
  /\ Shared([make_shared(AssetState) EXCEPT !.tempSource = NewId(AssetState)])
  /\ Goto(t, "register")
  /\ UNCHANGED <<held, completed>>

\* assets->addRuntimeSource("/temp", tempSource)
ThreadRegister(t) ==
  /\ pc[t] = "register"
  /\ Shared(addRuntimeSource(AssetState, tempSource))
  /\ Goto(t, "flag")
  /\ UNCHANGED <<held, completed>>

\* initialized = true
ThreadSetFlag(t) ==
  /\ pc[t] = "flag"
  /\ Shared([AssetState EXCEPT !.initialized = TRUE])
  /\ Goto(t, "return")
  /\ UNCHANGED <<held, completed>>

\* return tempSource: the caller's copy of the static pointer.
ThreadReturn(t) ==
  /\ pc[t] = "return"
  /\ held' = [held EXCEPT ![t] = tempSource]
  /\ Goto(t, "set")
  /\ UNCHANGED <<initialized, tempSource, heap, registered, completed>>

\* tempSource->set(path, bytes); addRuntimeSource("/temp", tempSource); return path:
\* the rest of makeAssetFromBytes, through the caller's pointer.
ThreadSet(t) ==
  /\ pc[t] = "set"
  /\ Shared(addRuntimeSource(SetIn(AssetState, held[t], PathOf(t), BytesEntry(<<"y">>)),
                             held[t]))
  /\ Goto(t, "idle")
  /\ completed' = [completed EXCEPT ![t] = @ + 1]
  /\ UNCHANGED held

ThreadNext ==
  \/ \E t \in Threads : ThreadCall(t) /\ UNCHANGED <<stackVars, lastAsset, bound>>
  \/ \E t \in Threads : ThreadCheck(t) /\ UNCHANGED <<stackVars, lastAsset, bound>>
  \/ \E t \in Threads : ThreadConstruct(t) /\ UNCHANGED <<stackVars, lastAsset, bound>>
  \/ \E t \in Threads : ThreadRegister(t) /\ UNCHANGED <<stackVars, lastAsset, bound>>
  \/ \E t \in Threads : ThreadSetFlag(t) /\ UNCHANGED <<stackVars, lastAsset, bound>>
  \/ \E t \in Threads : ThreadReturn(t) /\ UNCHANGED <<stackVars, lastAsset, bound>>
  \/ \E t \in Threads : ThreadSet(t) /\ UNCHANGED <<stackVars, lastAsset, bound>>

\* ------------------------------------------ marshalling of one bound call

\* Script values.
Nil == [t |-> "nil"]
StringValue(s) == [t |-> "string", s |-> s]
IntValue(i) == [t |-> "int", i |-> i]
\* A script float, counted in halves: NumberValue(3) is 1.5.
NumberValue(h) == [t |-> "number", h |-> h]
BoolValue(b) == [t |-> "bool", b |-> b]
Vec2Value(x, y) == [t |-> "vec2", x |-> x, y |-> y]

\* Native values; floats are counted in halves.
Null == [t |-> "NULL"]
NativeString(s) == [t |-> "const char*", s |-> s]
NativeInt(i) == [t |-> "int", i |-> i]
NativeFloat(h) == [t |-> "float", h |-> h]
NativeBool(b) == [t |-> "bool", b |-> b]
ImVec2(x, y) == [t |-> "ImVec2", x |-> x, y |-> y]
CoercionFailure == [t |-> "CoercionFailure"]

\* An argument line of a binding: the macro, the parameter, its declared default.
Param(macro, name, default) == [macro |-> macro, name |-> name, default |-> default]
\* An output line of a binding: PUSH_*(ret) or END_*_POINTER(name).
Output(macro, name) == [macro |-> macro, name |-> name]
\* The line after the call that drives the end stack, if the binding has one.
NoStackLine == [macro |-> "none", slot |-> NoSlot]
StackLine(macro, slot) == [macro |-> macro, slot |-> slot]

\* IMGUI_FUNCTION(Begin) .. END_IMGUI_FUNC
Bind_Begin ==
  [name |-> "Begin",
   params |-> << Param("LABEL_ARG", "name", Null),
                 Param("OPTIONAL_BOOL_POINTER_ARG", "p_open", Null),
                 Param("OPTIONAL_INT_ARG", "flags", NativeInt(0)) >>,
   call |-> "CALL_FUNCTION", ret |-> "bool", pass |-> <<"name", "p_open", "flags">>,
   stack |-> StackLine("IF_RET_ADD_END_STACK", 1),
   out |-> << Output("PUSH_BOOL", "ret"), Output("END_BOOL_POINTER", "p_open") >>]

\* IMGUI_FUNCTION(BeginChild) .. END_IMGUI_FUNC
Bind_BeginChild ==
  [name |-> "BeginChild",
   params |-> << Param("LABEL_ARG", "str_id", Null),
                 Param("OPTIONAL_IM_VEC_2_ARG", "size", ImVec2(0, 0)),
                 Param("OPTIONAL_INT_ARG", "child_flags", NativeInt(0)),
                 Param("OPTIONAL_INT_ARG", "window_flags", NativeInt(0)) >>,
   call |-> "CALL_FUNCTION", ret |-> "bool",
   pass |-> <<"str_id", "size", "child_flags", "window_flags">>,
   stack |-> StackLine("IF_RET_ADD_END_STACK", 2),
   out |-> << Output("PUSH_BOOL", "ret") >>]

\* IMGUI_FUNCTION(PopStyleColor) .. END_IMGUI_FUNC
Bind_PopStyleColor ==
  [name |-> "PopStyleColor",
   params |-> << Param("OPTIONAL_INT_ARG", "count", NativeInt(1)) >>,
   call |-> "CALL_FUNCTION_NO_RET", ret |-> "void", pass |-> <<"count">>,
   stack |-> NoStackLine,
   out |-> << >>]

\* Checkbox written without its END_BOOL_POINTER line.
Bind_Checkbox_NoWriteBack ==
  [name |-> "Checkbox",
   params |-> << Param("LABEL_ARG", "label", Null),
                 Param("BOOL_POINTER_ARG", "v", Null) >>,
   call |-> "CALL_FUNCTION", ret |-> "bool", pass |-> <<"label", "v">>,
   stack |-> NoStackLine,
   out |-> << Output("PUSH_BOOL", "ret") >>]

\* IMGUI_FUNCTION(Checkbox) .. END_IMGUI_FUNC
Bind_Checkbox ==
  [name |-> "Checkbox",
   params |-> << Param("LABEL_ARG", "label", Null),
                 Param("BOOL_POINTER_ARG", "v", Null) >>,
   call |-> "CALL_FUNCTION", ret |-> "bool", pass |-> <<"label", "v">>,
   stack |-> NoStackLine,
   out |-> << Output("PUSH_BOOL", "ret"), Output("END_BOOL_POINTER", "v") >>]

DragFloatRange2_Params ==
  << Param("LABEL_ARG", "label", Null),
     Param("FLOAT_POINTER_ARG", "v_current_min", Null),
     Param("FLOAT_POINTER_ARG", "v_current_max", Null),
     Param("OPTIONAL_NUMBER_ARG", "v_speed", NativeFloat(2)),
     Param("OPTIONAL_NUMBER_ARG", "v_min", NativeFloat(0)),
     Param("OPTIONAL_NUMBER_ARG", "v_max", NativeFloat(0)),
     Param("LABEL_ARG", "format", Null),
     Param("OPTIONAL_LABEL_ARG", "format_max", Null),
     Param("OPTIONAL_INT_ARG", "flags", NativeInt(0)) >>

\* DragFloatRange2 with its two END_FLOAT_POINTER lines exchanged.
Bind_DragFloatRange2_MaxFirst ==
  [name |-> "DragFloatRange2",
   params |-> DragFloatRange2_Params,
   call |-> "CALL_FUNCTION", ret |-> "bool",
   pass |-> <<"label", "v_current_min", "v_current_max", "v_speed", "v_min", "v_max",
              "format", "format_max", "flags">>,
   stack |-> NoStackLine,
   out |-> << Output("PUSH_BOOL", "ret"), Output("END_FLOAT_POINTER", "v_current_max"),
              Output("END_FLOAT_POINTER", "v_current_min") >>]

\* IMGUI_FUNCTION(DragFloatRange2) .. END_IMGUI_FUNC
Bind_DragFloatRange2 ==
  [name |-> "DragFloatRange2",
   params |-> DragFloatRange2_Params,
   call |-> "CALL_FUNCTION", ret |-> "bool",
   pass |-> <<"label", "v_current_min", "v_current_max", "v_speed", "v_min", "v_max",
              "format", "format_max", "flags">>,
   stack |-> NoStackLine,
   out |-> << Output("PUSH_BOOL", "ret"), Output("END_FLOAT_POINTER", "v_current_min"),
              Output("END_FLOAT_POINTER", "v_current_max") >>]

\* BeginTable with `columns` declared by OPTIONAL_INT_ARG(columns, 0).
Bind_BeginTable_OptionalColumns ==
  [name |-> "BeginTable",
   params |-> << Param("LABEL_ARG", "str_id", Null),
                 Param("OPTIONAL_INT_ARG", "columns", NativeInt(0)),
                 Param("OPTIONAL_INT_ARG", "flags", NativeInt(0)),
                 Param("OPTIONAL_IM_VEC_2_ARG", "outer_size", ImVec2(0, 0)),
                 Param("OPTIONAL_NUMBER_ARG", "inner_width", NativeFloat(0)) >>,
   call |-> "CALL_FUNCTION", ret |-> "bool",
   pass |-> <<"str_id", "columns", "flags", "outer_size", "inner_width">>,
   stack |-> StackLine("IF_RET_ADD_END_STACK", 14),
   out |-> << Output("PUSH_BOOL", "ret") >>]

\* IMGUI_FUNCTION(BeginTable) .. END_IMGUI_FUNC
Bind_BeginTable ==
  [name |-> "BeginTable",
   params |-> << Param("LABEL_ARG", "str_id", Null),
                 Param("INT_ARG", "columns", Null),
                 Param("OPTIONAL_INT_ARG", "flags", NativeInt(0)),
                 Param("OPTIONAL_IM_VEC_2_ARG", "outer_size", ImVec2(0, 0)),
                 Param("OPTIONAL_NUMBER_ARG", "inner_width", NativeFloat(0)) >>,
   call |-> "CALL_FUNCTION", ret |-> "bool",
   pass |-> <<"str_id", "columns", "flags", "outer_size", "inner_width">>,
   stack |-> StackLine("IF_RET_ADD_END_STACK", 14),
   out |-> << Output("PUSH_BOOL", "ret") >>]

\* GetWindowPos pushing ret.y before ret.x.
Bind_GetWindowPos_YFirst ==
  [name |-> "GetWindowPos",
   params |-> << >>,
   call |-> "CALL_FUNCTION", ret |-> "ImVec2", pass |-> << >>,
   stack |-> NoStackLine,
   out |-> << Output("PUSH_NUMBER", "ret.y"), Output("PUSH_NUMBER", "ret.x") >>]

\* IMGUI_FUNCTION(GetWindowPos) .. END_IMGUI_FUNC
Bind_GetWindowPos ==
  [name |-> "GetWindowPos",
   params |-> << >>,
   call |-> "CALL_FUNCTION", ret |-> "ImVec2", pass |-> << >>,
   stack |-> NoStackLine,
   out |-> << Output("PUSH_NUMBER", "ret.x"), Output("PUSH_NUMBER", "ret.y") >>]

\* IMGUI_FUNCTION(ColorConvertU32ToFloat4) .. END_IMGUI_FUNC
Bind_ColorConvertU32ToFloat4 ==
  [name |-> "ColorConvertU32ToFloat4",
   params |-> << Param("UINT_ARG", "in", Null) >>,
   call |-> "CALL_FUNCTION", ret |-> "ImVec4", pass |-> <<"in">>,
   stack |-> NoStackLine,
   out |-> << Output("PUSH_NUMBER", "ret.x"), Output("PUSH_NUMBER", "ret.y"),
              Output("PUSH_NUMBER", "ret.z"), Output("PUSH_NUMBER", "ret.w") >>]

\* IMGUI_FUNCTION(DragFloat) .. END_IMGUI_FUNC
Bind_DragFloat ==
  [name |-> "DragFloat",
   params |-> << Param("LABEL_ARG", "label", Null),
                 Param("FLOAT_POINTER_ARG", "v", Null),
                 Param("OPTIONAL_NUMBER_ARG", "v_speed", NativeFloat(2)),
                 Param("OPTIONAL_NUMBER_ARG", "v_min", NativeFloat(0)),
                 Param("OPTIONAL_NUMBER_ARG", "v_max", NativeFloat(0)),
                 Param("LABEL_ARG", "format", Null),
                 Param("OPTIONAL_INT_ARG", "flags", NativeInt(0)) >>,
   call |-> "CALL_FUNCTION", ret |-> "bool",
   pass |-> <<"label", "v", "v_speed", "v_min", "v_max", "format", "flags">>,
   stack |-> NoStackLine,
   out |-> << Output("PUSH_BOOL", "ret"), Output("END_FLOAT_POINTER", "v") >>]

\* IMGUI_FUNCTION(TableSetupColumn) .. END_IMGUI_FUNC
Bind_TableSetupColumn ==
  [name |-> "TableSetupColumn",
   params |-> << Param("LABEL_ARG", "label", Null),
                 Param("OPTIONAL_INT_ARG", "flags", NativeInt(0)),
                 Param("OPTIONAL_NUMBER_ARG", "init_width_or_weight", NativeFloat(0)),
                 Param("UINT_ARG", "user_id", Null) >>,
   call |-> "CALL_FUNCTION_NO_RET", ret |-> "void",
   pass |-> <<"label", "flags", "init_width_or_weight", "user_id">>,
   stack |-> NoStackLine,
   out |-> << >>]

\* The bound functions a script calls in the model.
BoundFunctions ==
  { Bind_Begin, Bind_BeginChild, Bind_PopStyleColor, Bind_Checkbox, Bind_DragFloatRange2,
    Bind_BeginTable, Bind_GetWindowPos, Bind_ColorConvertU32ToFloat4, Bind_DragFloat,
    Bind_TableSetupColumn }

Binding(name) == CHOOSE b \in BoundFunctions : b.name = name

\* --- the macros' meaning (the argument marshalling algorithm)

\* The macros that declare a required argument, and those that declare an
\* output reference.
RequiredMacros ==
  {"LABEL_ARG", "INT_ARG", "UINT_ARG", "BOOL_POINTER_ARG", "FLOAT_POINTER_ARG"}
PointerMacros == {"BOOL_POINTER_ARG", "OPTIONAL_BOOL_POINTER_ARG", "FLOAT_POINTER_ARG"}

\* The native type a macro's argument is coerced to.
NativeType(macro) ==
  CASE macro \in {"LABEL_ARG", "OPTIONAL_LABEL_ARG"} -> "const char*"
    [] macro \in {"INT_ARG", "OPTIONAL_INT_ARG"} -> "int"
    [] macro = "UINT_ARG" -> "unsigned int"
    [] macro = "OPTIONAL_NUMBER_ARG" -> "float"
    [] macro = "FLOAT_POINTER_ARG" -> "float"
    [] macro = "OPTIONAL_IM_VEC_2_ARG" -> "ImVec2"
    [] macro \in {"BOOL_POINTER_ARG", "OPTIONAL_BOOL_POINTER_ARG"} -> "bool"

\* toNative<T>(value): a string for a string; any numeric value that converts
\* without loss for a number; a vector for a vector; nothing across types.
toNative(type, value) ==
  CASE type = "const char*" /\ value.t = "string" -> NativeString(value.s)
    [] type = "int" /\ value.t = "int" -> NativeInt(value.i)
    [] type = "int" /\ value.t = "number" /\ value.h % 2 = 0 -> NativeInt(value.h \div 2)
    [] type = "unsigned int" /\ value.t = "int" /\ value.i >= 0 -> NativeInt(value.i)
    [] type = "float" /\ value.t = "int" -> NativeFloat(2 * value.i)
    [] type = "float" /\ value.t = "number" -> NativeFloat(value.h)
    [] type = "bool" /\ value.t = "bool" -> NativeBool(value.b)
    [] type = "ImVec2" /\ value.t = "vec2" -> ImVec2(value.x, value.y)
    [] OTHER -> CoercionFailure

\* pushNative(value).
pushNative(value) ==
  CASE value.t = "bool" -> BoolValue(value.b)
    [] value.t = "int" -> IntValue(value.i)
    [] value.t = "float" -> NumberValue(value.h)
    [] value.t = "const char*" -> StringValue(value.s)

\* The script value at position k of the call, nil when the call is shorter.
ArgAt(args, k) == IF k <= Len(args) THEN args[k] ELSE Nil

\* An optional argument that is present but nil read as the zero of its type
\* instead of its declared default.
ReadArg_NilIsZero(p, v) ==
  IF v = Nil /\ p.macro \in RequiredMacros
  THEN [err |-> "arity", val |-> Null]
  ELSE IF v = Nil
  THEN [err |-> "none",
        val |-> IF NativeType(p.macro) = "int" THEN NativeInt(0) ELSE p.default]
  ELSE IF toNative(NativeType(p.macro), v) = CoercionFailure
  THEN [err |-> "type", val |-> Null]
  ELSE [err |-> "none", val |-> toNative(NativeType(p.macro), v)]

\* One *_ARG line: a required argument that is missing is an arity error; an
\* optional one that is missing takes its declared default (an optional output
\* reference: the null sentinel); a value that does not coerce is a type error.
ReadArg(p, v) ==
  IF v = Nil /\ p.macro \in RequiredMacros
  THEN [err |-> "arity", val |-> Null]
  ELSE IF v = Nil
  THEN [err |-> "none", val |-> p.default]
  ELSE IF toNative(NativeType(p.macro), v) = CoercionFailure
  THEN [err |-> "type", val |-> Null]
  ELSE [err |-> "none", val |-> toNative(NativeType(p.macro), v)]

\* The *_ARG lines of b applied to the call's arguments, in declaration order.
ReadArgs(b, args) == [k \in 1..Len(b.params) |-> ReadArg(b.params[k], ArgAt(args, k))]

\* The first argument line that failed, 0 if none did.
FirstError(reads) ==
  IF \A k \in DOMAIN reads : reads[k].err = "none" THEN 0
  ELSE CHOOSE k \in DOMAIN reads :
         reads[k].err # "none" /\ \A j \in 1..(k - 1) : reads[j].err = "none"

\* Position of the parameter `name` of b.
ParamIndex(b, name) == CHOOSE k \in 1..Len(b.params) : b.params[k].name = name

\* The native function: what it answers and whether it writes its output
\* references is the environment's choice; it writes through no null pointer.
Written(value) ==
  CASE value.t = "bool" -> NativeBool(~value.b)
    [] value.t = "float" -> NativeFloat(value.h + 1)

NativeFunction(b, vals, env) ==
  [k \in 1..Len(b.params) |->
     IF b.params[k].macro \in PointerMacros /\ vals[k] # Null /\ env.writes
     THEN Written(vals[k]) ELSE vals[k]]

\* The value CALL_FUNCTION leaves in `ret`: the environment's answer, in the
\* declared return type.
ImVec4(x, y, z, w) == [t |-> "ImVec4", x |-> x, y |-> y, z |-> z, w |-> w]

NativeReturn(b, env) ==
  CASE b.ret = "ImVec2" -> IF env.ret THEN ImVec2(2, 4) ELSE ImVec2(6, 0)
    [] b.ret = "ImVec4" -> IF env.ret THEN ImVec4(1, 3, 5, 7) ELSE ImVec4(8, 6, 4, 2)
    [] OTHER -> NativeBool(env.ret)

\* The expression a PUSH_NUMBER line names: ret.x, ret.y, ret.z or ret.w.
Component(ret, expr) ==
  CASE expr = "ret.x" -> ret.x
    [] expr = "ret.y" -> ret.y
    [] expr = "ret.z" -> ret.z
    [] expr = "ret.w" -> ret.w

\* The PUSH_* and END_*_POINTER lines, in the order they are written.
RECURSIVE PushOutputs(_, _, _, _)
PushOutputs(b, out, after, env) ==
  IF out = <<>> THEN <<>>
  ELSE LET o == Head(out)
           pushed ==
             IF o.macro = "PUSH_BOOL" THEN <<BoolValue(env.ret)>>
             ELSE IF o.macro = "PUSH_NUMBER"
             THEN <<NumberValue(Component(NativeReturn(b, env), o.name))>>
             ELSE IF after[ParamIndex(b, o.name)] # Null
             THEN <<pushNative(after[ParamIndex(b, o.name)])>>
             ELSE <<>>
       IN  pushed \o PushOutputs(b, Tail(out), after, env)

\* The end-stack line of b applied to the shadow stack.
StackAfter(b, stack, env) ==
  IF b.stack.macro = "IF_RET_ADD_END_STACK"
  THEN IF_RET_ADD_END_STACK(stack, env.ret, b.stack.slot)
  ELSE IF b.stack.macro = "ADD_END_STACK" THEN ADD_END_STACK(stack, b.stack.slot)
  ELSE stack

NoEnv == [ret |-> FALSE, writes |-> FALSE]

\* The whole bound function: what the call b(args) does, the native function
\* behaving as env.
Marshal(b, args, stack, env) ==
  LET reads == ReadArgs(b, args)
      bad == FirstError(reads)
      vals == [k \in DOMAIN reads |-> reads[k].val]
      after == NativeFunction(b, vals, env)
  IN  IF bad # 0
      THEN [err |-> reads[bad].err, errArg |-> b.params[bad].name, invoked |-> FALSE,
            native |-> <<>>, after |-> <<>>, rets |-> <<>>, stack |-> stack, env |-> NoEnv]
      ELSE [err |-> "none", errArg |-> "", invoked |-> TRUE,
            native |-> [i \in 1..Len(b.pass) |-> vals[ParamIndex(b, b.pass[i])]],
            after |-> after,
            rets |-> PushOutputs(b, b.out, after, env),
            stack |-> StackAfter(b, stack, env), env |-> env]

\* --- the calls scripts make

\* The well-typed values a script passes for a parameter.
Good(p) ==
  CASE NativeType(p.macro) = "const char*" -> {StringValue("s")}
    [] NativeType(p.macro) \in {"int", "unsigned int"} -> {IntValue(1)}
    [] NativeType(p.macro) = "float" /\ p.macro \in PointerMacros ->
         {IF p.name = "v_current_min" THEN NumberValue(2) ELSE NumberValue(6)}
    [] NativeType(p.macro) = "float" -> {NumberValue(3)}
    [] NativeType(p.macro) = "bool" -> {BoolValue(TRUE)}
    [] NativeType(p.macro) = "ImVec2" -> {Vec2Value(2, 4)}

\* The declared default of an optional parameter written out as a script value.
DefaultValue(p) ==
  IF p.default = Null THEN {}
  ELSE IF p.default.t = "ImVec2" THEN {Vec2Value(p.default.x, p.default.y)}
  ELSE {pushNative(p.default)}

\* The other values: nil, the declared default given explicitly, a value of the
\* wrong type, and a float that is no integer.
Odd(p) ==
  {Nil} \cup DefaultValue(p)
    \cup (IF NativeType(p.macro) = "const char*" THEN {BoolValue(TRUE)} ELSE {StringValue("s")})
    \cup (IF NativeType(p.macro) = "int" THEN {NumberValue(3)} ELSE {})
    \cup (IF NativeType(p.macro) = "bool" THEN {BoolValue(FALSE)} ELSE {})

\* The argument lists for the parameters from position k on, at most `odd` of
\* them not plain.
RECURSIVE ArgLists(_, _, _)
ArgLists(params, k, odd) ==
  IF k > Len(params) THEN {<<>>}
  ELSE {<<>>}
       \cup {<<v>> \o rest : v \in Good(params[k]), rest \in ArgLists(params, k + 1, odd)}
       \cup (IF odd = 0 THEN {}
             ELSE {<<v>> \o rest : v \in Odd(params[k]),
                                   rest \in ArgLists(params, k + 1, odd - 1)})

NoBoundCall ==
  [name |-> "none", args |-> <<>>, done |-> TRUE, result |-> Marshal(Bind_PopStyleColor, <<>>, <<>>, NoEnv)]

\* A script calls b(args): the generated function runs from IMGUI_FUNCTION to
\* END_IMGUI_FUNC.
BoundCall ==
  /\ ~bound.done
  /\ \E env \in [ret : BOOLEAN, writes : BOOLEAN] :
       LET result == Marshal(Binding(bound.name), bound.args, endStack, env)
       IN  /\ (result.err # "none" => env = NoEnv)
           /\ bound' = [bound EXCEPT !.done = TRUE, !.result = result]
           /\ endStack' = result.stack
  /\ UNCHANGED <<nativeOpen, nativeFault, phase, unwinds, lastCall, assetVars, pc, held, completed>>

MarshalNext == BoundCall

Init ==
  /\ endStack = <<>>
  /\ nativeOpen = <<>>
  /\ nativeFault = FALSE
  /\ phase = "running"
  /\ unwinds = 0
  /\ lastCall = NoCall
  /\ initialized = FALSE
  /\ tempSource = 0
  /\ heap = <<>>
  /\ registered = 0
  /\ lastAsset = NoAssetCall
  /\ pc = [t \in Threads |-> "idle"]
  /\ held = [t \in Threads |-> 0]
  /\ completed = [t \in Threads |-> 0]
  /\ bound = NoBoundCall

\* A script context about to make one call of a bound function.
MarshalInit ==
  /\ endStack = <<>>
  /\ nativeOpen = <<>>
  /\ nativeFault = FALSE
  /\ phase = "running"
  /\ unwinds = 0
  /\ lastCall = NoCall
  /\ initialized = FALSE
  /\ tempSource = 0
  /\ heap = <<>>
  /\ registered = 0
  /\ lastAsset = NoAssetCall
  /\ pc = [t \in Threads |-> "idle"]
  /\ held = [t \in Threads |-> 0]
  /\ completed = [t \in Threads |-> 0]
  /\ \E b \in BoundFunctions : \E args \in ArgLists(b.params, 1, MaxOdd) :
       bound = [name |-> b.name, args |-> args, done |-> FALSE, result |-> NoBoundCall.result]

Next ==
  \/ \E b \in ScriptOpenings : \E ret \in Returns(b) :
       OpenCall(b, ret) /\ UNCHANGED <<assetVars, threadVars>>
  \/ \E b \in ScriptClosings :
       \E count \in (IF b.name = "PopStyleVar" THEN 1..MaxCount ELSE {1}) :
         CloseCall(b, count) /\ UNCHANGED <<assetVars, threadVars>>
  \/ \E slot \in ScriptSlots : ForcedUnwindToDepth(slot) /\ UNCHANGED <<assetVars, threadVars>>
  \/ \E how \in {"returned", "error", "cancelled"} :
       ScriptEnds(how) /\ UNCHANGED <<assetVars, threadVars>>
  \/ FrameBoundaryUnwind /\ UNCHANGED <<assetVars, threadVars>>
  \/ NextFrame /\ UNCHANGED <<assetVars, threadVars>>

Spec == Init /\ [][Next]_vars

AssetSpec == Init /\ [][AssetNext]_vars

ThreadSpec == Init /\ [][ThreadNext]_vars

MarshalSpec == MarshalInit /\ [][MarshalNext]_vars

\* ------------------------------------------------------------------ claims

\* The entries of `stack` from the top down.
RECURSIVE Reversed(_)
Reversed(stack) ==
  IF stack = <<>> THEN <<>>
  ELSE <<stack[Len(stack)]>> \o Reversed(SubSeq(stack, 1, Len(stack) - 1))

\* C1: once FrameBoundaryUnwind has run, the shadow stack is empty and every
\* entry that was open has been closed by one invocation of the closing function
\* registered for its slot, the invocations in reverse order of opening.
C1_StackBalance ==
  lastCall.name = "FrameBoundaryUnwind" =>
    /\ endStack = <<>>
    /\ Len(lastCall.invoked) = Len(lastCall.before)
    /\ \A i \in 1..Len(lastCall.before) :
         /\ Reversed(lastCall.before)[i] \in DOMAIN END_STACK_OPTION
         /\ lastCall.invoked[i] = END_STACK_OPTION[Reversed(lastCall.before)[i]]

\* C2: Begin returning true pushes slot 1, TreeNode returning true pushes slot 6
\* on top of it, and when the script then aborts FrameBoundaryUnwind invokes
\* TreePop, then End, once each, and leaves the shadow stack empty.
C2_WindowTreeUnwind ==
  /\ (lastCall.name = "Begin" /\ lastCall.ret /\ lastCall.before = <<>>) => endStack = <<1>>
  /\ (lastCall.name = "TreeNode" /\ lastCall.ret /\ lastCall.before = <<1>>) =>
       endStack = <<1, 6>>
  /\ (lastCall.name = "FrameBoundaryUnwind" /\ lastCall.before = <<1, 6>>) =>
       /\ lastCall.invoked = <<"TreePop", "End">>
       /\ endStack = <<>>

C2_Witness ==
  /\ lastCall.name = "FrameBoundaryUnwind"
  /\ lastCall.before = <<1, 6>>
  /\ phase = "error"
  /\ nativeOpen = <<>>
  /\ ~nativeFault

\* C3: a closing binding pops the top shadow-stack entry exactly when that entry
\* is the binding's slot; on an empty stack or another top slot it raises an
\* error and leaves the shadow stack as it was.
C3_ClosePopsMatchingTop ==
  \A b \in ClosingBindings :
    lastCall.name = b.name =>
      IF lastCall.before # <<>> /\ lastCall.before[Len(lastCall.before)] = b.slot
      THEN /\ ~lastCall.err
           /\ endStack = SubSeq(lastCall.before, 1, Len(lastCall.before) - 1)
      ELSE /\ lastCall.err
           /\ endStack = lastCall.before

C3_Witness ==
  /\ lastCall.name = "End"
  /\ lastCall.err
  /\ lastCall.before = <<1, 6>>
  /\ endStack = <<1, 6>>

\* C4: a binding ending in IF_RET_ADD_END_STACK pushes its slot once when the
\* native call returned true and nothing when it returned false; a binding
\* ending in ADD_END_STACK pushes its slot once on every call; no other call
\* makes the shadow stack grow.
C4_OpeningPushes ==
  /\ \A b \in OpeningBindings :
       lastCall.name = b.name =>
         CASE b.push = "IF_RET_ADD_END_STACK" ->
                endStack = IF lastCall.ret THEN Append(lastCall.before, b.slot)
                           ELSE lastCall.before
           [] b.push = "ADD_END_STACK" -> endStack = Append(lastCall.before, b.slot)
           [] OTHER -> endStack = lastCall.before
  /\ lastCall.name \notin
         {"none"} \cup {b.name : b \in ConditionalOpenings \cup UnconditionalOpenings} =>
       Len(endStack) <= Len(lastCall.before)
  /\ {"Begin", "BeginChild", "BeginCombo", "BeginTable"} \subseteq
       {b.name : b \in {o \in OpeningBindings : o.push = "IF_RET_ADD_END_STACK"}}
  /\ {"BeginGroup", "BeginDisabled", "TreePush", "PushStyleVar"} \subseteq
       {b.name : b \in {o \in OpeningBindings : o.push = "ADD_END_STACK"}}

C4_Witness ==
  /\ lastCall.name = "Begin"
  /\ ~lastCall.ret
  /\ lastCall.before = <<3>>
  /\ endStack = <<3>>

\* C5: in every state the shadow stack is, entry for entry and in order, the
\* sequence of native scopes currently open that a function of the end-stack
\* option table closes.
C5_ShadowMirrorsNative ==
  /\ Len(endStack) = Len(nativeOpen)
  /\ \A i \in 1..Len(endStack) :
       /\ endStack[i] \in DOMAIN END_STACK_OPTION
       /\ END_STACK_OPTION[endStack[i]] = nativeOpen[i]

\* C6: in every frame FrameBoundaryUnwind runs exactly once, after the last
\* script call of the frame and before the next frame is dispatched, however the
\* script ended.
C6_UnwindOncePerFrame ==
  [][/\ (lastCall' # lastCall /\ lastCall'.name \notin {"none", "FrameBoundaryUnwind"}) =>
          (phase = "running" /\ unwinds = 0)
     /\ (lastCall' # lastCall /\ lastCall'.name = "FrameBoundaryUnwind") =>
          (phase \in {"returned", "error", "cancelled"} /\ unwinds = 0 /\ unwinds' = 1)
     /\ (phase # "running" /\ phase' = "running") => unwinds = 1
     /\ (phase = "running") => unwinds' = 0
     /\ unwinds' \in {0, 1}]_vars

C6_Witness ==
  /\ phase = "cancelled"
  /\ unwinds = 1
  /\ lastCall.name = "FrameBoundaryUnwind"
  /\ lastCall.before # <<>>

\* Whether a path begins with "/temp/", written out.
HasTempPrefix(path) ==
  /\ Len(path) >= 6
  /\ SubSeq(path, 1, 6) = <<"/", "t", "e", "m", "p", "/">>

\* The entries the callbacks see in state st.
StoreOf(st) == IF st.initialized THEN st.heap[st.tempSource] ELSE EmptySource

\* What hasTemporaryAsset(path) returns when called now.
HasNow(path) == SourceContains(StoreOf(getTemporaryAssetSource(AssetState)), path)

\* Whether the process state is the one the last callback started from.
Untouched ==
  /\ initialized = lastAsset.before.initialized
  /\ tempSource = lastAsset.before.tempSource
  /\ heap = lastAsset.before.heap
  /\ registered = lastAsset.before.registered

\* A path present stays present over every step that is neither its erasure nor
\* a clear.
StaysUntilErased ==
  \A p \in Paths :
    (/\ HasNow(p)
     /\ ~(lastAsset'.name = "removeTemporaryAsset" /\ lastAsset'.path = p)
     /\ lastAsset'.name # "clearTemporaryAssets") => HasNow(p)'

\* C7 as stated: makeAsset with a path lacking the prefix raises and changes
\* nothing; with the prefix it succeeds, and the path stays present until it is
\* erased or the store is cleared.
C7_MakeAssetPrefix ==
  [][/\ lastAsset'.name = "makeAsset" =>
          IF ~HasTempPrefix(lastAsset'.path)
          THEN lastAsset'.err = "prefix" /\ UNCHANGED <<initialized, tempSource, heap, registered>>
          ELSE lastAsset'.err = "none" /\ \E p \in Paths : p = lastAsset'.path /\ HasNow(p)'
     /\ StaysUntilErased]_vars

\* C7 amended: with the prefix, makeAsset succeeds when the value converts to a
\* string, an image or JSON; for any other value it raises a conversion error and
\* leaves the entries as they were.
C7_MakeAssetPrefixAmended ==
  [][/\ lastAsset'.name = "makeAsset" =>
          IF ~HasTempPrefix(lastAsset'.path)
          THEN lastAsset'.err = "prefix" /\ UNCHANGED <<initialized, tempSource, heap, registered>>
          ELSE IF lastAsset'.arg.type \in {"string", "image", "table"}
          THEN /\ lastAsset'.err = "none"
               /\ lastAsset'.ret = Some(lastAsset'.path)
               /\ \E p \in Paths : p = lastAsset'.path /\ HasNow(p)'
          ELSE /\ lastAsset'.err = "conversion"
               /\ StoreOf(AssetState)' = StoreOf(AssetState)
     /\ StaysUntilErased]_vars

C7_Witness ==
  /\ lastAsset.name = "makeAsset"
  /\ lastAsset.path = <<"/", "t", "e", "m", "p", "/", "a">>
  /\ lastAsset.err = "none"
  /\ HasNow(lastAsset.path)
  /\ ~SourceContains(StoreOf(lastAsset.before), lastAsset.path)

PathCallbacks ==
  {"makeAsset", "makeAssetFromBytes", "makeImageFromBytes", "getTemporaryAsset",
   "getTemporaryImage", "hasTemporaryAsset", "removeTemporaryAsset"}

\* C8 as stated: a path callback called with a path lacking the prefix constructs
\* no store, registers nothing, changes no entry and logs nothing.
C8_PrefixBeforeSideEffects ==
  (lastAsset.name \in PathCallbacks /\ ~HasTempPrefix(lastAsset.path)) =>
    /\ Untouched
    /\ lastAsset.log = <<>>

\* C8 amended: the three create callbacks check the prefix before any side
\* effect; the read, query and erase callbacks make no prefix check: with such a
\* path they raise nothing, find nothing and change no entry, and their only
\* effects are those of the first use of the source (construction, registration
\* and the log line of its initialization).
C8_PrefixBeforeSideEffectsAmended ==
  (lastAsset.name \in PathCallbacks /\ ~HasTempPrefix(lastAsset.path)) =>
    IF lastAsset.name \in {"makeAsset", "makeAssetFromBytes", "makeImageFromBytes"}
    THEN /\ lastAsset.err = "prefix"
         /\ Untouched
         /\ lastAsset.log = <<>>
    ELSE /\ lastAsset.err = "none"
         /\ lastAsset.ret \in {None, Some(FALSE)}
         /\ StoreOf(AssetState) = StoreOf(lastAsset.before)
         /\ IF lastAsset.before.initialized
            THEN Untouched /\ lastAsset.log = <<>>
            ELSE /\ initialized
                 /\ registered = tempSource
                 /\ heap[tempSource] = EmptySource
                 /\ lastAsset.log = <<"Initialized temporary asset source">>

C8_Witness ==
  /\ lastAsset.name = "removeTemporaryAsset"
  /\ ~HasTempPrefix(lastAsset.path)
  /\ ~lastAsset.before.initialized
  /\ initialized

\* C9: after clearTemporaryAssets no path set before the clear is reported
\* present, and a makeAsset made right after the clear succeeds and leaves its
\* path, and only its path, present.
C9_ClearSemantics ==
  /\ lastAsset.name = "clearTemporaryAssets" =>
       \A p \in DOMAIN StoreOf(lastAsset.before) : ~HasNow(p)
  /\ (lastAsset.name = "makeAsset" /\ lastAsset.afterClear /\ lastAsset.err = "none") =>
       DOMAIN StoreOf(AssetState) = {lastAsset.path}

\* C10: clearTemporaryAssets makes the newly constructed empty store the current
\* store and the source registered under "/temp", so that nothing set before
\* the clear resolves through it.
C10_ClearReplacesStore ==
  lastAsset.name = "clearTemporaryAssets" =>
    /\ tempSource = lastAsset.newSource
    /\ registered = lastAsset.newSource
    /\ registered \in DOMAIN heap
    /\ heap[registered] = EmptySource

\* The entry the store the callbacks use holds at the path of the last call.
EntryNow == heap[tempSource][lastAsset.path]

\* The last line the last call logged.
LastLine == lastAsset.log[Len(lastAsset.log)]

\* The last call was makeAsset with a path under the prefix.
MadeAsset == lastAsset.name = "makeAsset" /\ beginsWith(lastAsset.path, TempPrefix)

\* makeAsset took the string branch, resp. the image branch: the entry it left
\* and the one "Created" line it logged.
TookStringBranch ==
  /\ lastAsset.err = "none"
  /\ EntryNow = BytesEntry(luaMaybeToString(lastAsset.arg)[1])
  /\ LastLine = "Created temporary asset (bytes)"

TookImageBranch ==
  /\ lastAsset.err = "none"
  /\ EntryNow = ImageEntry(luaMaybeToImage(lastAsset.arg)[1])
  /\ LastLine = "Created temporary asset (image)"

TookJsonBranch ==
  /\ lastAsset.err = "none"
  /\ EntryNow = BytesEntry(luaToJsonRepr(lastAsset.arg)[1])
  /\ LastLine = "Created temporary asset (JSON)"

\* C11 (as stated): makeAsset(path, data) stores the string's bytes when data
\* converts to a string, otherwise the image when data converts to an image, and
\* otherwise always the JSON text of data as bytes; the branch depends on data
\* alone.
C11_DispatchOrder ==
  MadeAsset =>
    IF luaMaybeToString(lastAsset.arg) # None THEN TookStringBranch
    ELSE IF luaMaybeToImage(lastAsset.arg) # None THEN TookImageBranch
    ELSE luaToJsonRepr(lastAsset.arg) # None /\ TookJsonBranch

\* C11 (amended): as above, except that the fallback stores the JSON text only
\* when data has a JSON form; when it has none the call raises a conversion
\* error and the entries of the store are as they were.
C11_DispatchOrderAmended ==
  MadeAsset =>
    IF luaMaybeToString(lastAsset.arg) # None THEN TookStringBranch
    ELSE IF luaMaybeToImage(lastAsset.arg) # None THEN TookImageBranch
    ELSE IF luaToJsonRepr(lastAsset.arg) # None THEN TookJsonBranch
    ELSE /\ lastAsset.err = "conversion"
         /\ heap[tempSource] = StoreOf(lastAsset.before)

\* A string, which has a JSON form too, was stored by the string branch over an
\* entry another branch had left at the path.
C11_Witness ==
  /\ MadeAsset
  /\ luaMaybeToString(lastAsset.arg) # None
  /\ luaToJsonRepr(lastAsset.arg) # None
  /\ luaToJsonRepr(lastAsset.arg) # luaMaybeToString(lastAsset.arg)
  /\ TookStringBranch
  /\ lastAsset.path \in DOMAIN StoreOf(lastAsset.before)
  /\ StoreOf(lastAsset.before)[lastAsset.path] # EntryNow

\* The last call read the store: getTemporaryAsset or getTemporaryImage.
WasRead == lastAsset.name \in {"getTemporaryAsset", "getTemporaryImage"}

\* A read raises nothing, and returns the absent value for a path that was not
\* in the store.
ReadOfMissing ==
  WasRead =>
    /\ lastAsset.err = "none"
    /\ (lastAsset.path \notin DOMAIN StoreOf(lastAsset.before) => lastAsset.ret = None)

\* A read that follows a successful create call on the same path returns the
\* payload of that call.
ReadAfterCreate ==
  (/\ lastAsset.err = "none"
   /\ lastAsset'.path = lastAsset.path) =>
    /\ (lastAsset.name = "makeAssetFromBytes" /\ lastAsset'.name = "getTemporaryAsset"
          => lastAsset'.ret = Some(lastAsset.arg))
    /\ (lastAsset.name = "makeAsset" /\ luaMaybeToString(lastAsset.arg) # None
          /\ lastAsset'.name = "getTemporaryAsset"
          => lastAsset'.ret = luaMaybeToString(lastAsset.arg))
    /\ (lastAsset.name = "makeImageFromBytes" /\ lastAsset'.name = "getTemporaryImage"
          => lastAsset'.ret = readPng(lastAsset.arg))

\* C12: getTemporaryAsset(p) and getTemporaryImage(p) raise nothing and return
\* the absent value when p is not in the store; after makeAssetFromBytes(p, b)
\* getTemporaryAsset(p) returns b, and a read after several create calls on p
\* returns the payload of the latest one only.
C12_ReadReturnsLatest == [][ReadOfMissing' /\ ReadAfterCreate]_vars

\* getTemporaryAsset(p) returned the bytes of the makeAssetFromBytes(p, b) before
\* it, which had replaced another payload at p.
C12_Witness ==
  /\ lastAsset.name = "getTemporaryAsset"
  /\ lastAsset.afterOverwrite
  /\ lastAsset.ret # None
  /\ lastAsset.ret[1] \in RawByteStrings
  /\ EntryNow = BytesEntry(lastAsset.ret[1])

\* The lines the last call logged, as a set.
Logged == {lastAsset.log[i] : i \in DOMAIN lastAsset.log}

\* C13: removeTemporaryAsset(p) returns nothing and raises nothing, also for an
\* absent p; afterwards hasTemporaryAsset(p) is false and every other path has
\* the entry it had; "Removed temporary asset" is logged iff p was present.
C13_RemoveEffect ==
  lastAsset.name = "removeTemporaryAsset" =>
    /\ lastAsset.err = "none"
    /\ lastAsset.ret = None
    /\ ~HasNow(lastAsset.path)
    /\ DOMAIN heap[tempSource] = DOMAIN StoreOf(lastAsset.before) \ {lastAsset.path}
    /\ \A q \in DOMAIN heap[tempSource] : heap[tempSource][q] = StoreOf(lastAsset.before)[q]
    /\ ("Removed temporary asset" \in Logged
          <=> lastAsset.path \in DOMAIN StoreOf(lastAsset.before))

\* A present path was removed from a store that holds another path as well.
C13_Witness ==
  /\ lastAsset.name = "removeTemporaryAsset"
  /\ lastAsset.path \in DOMAIN StoreOf(lastAsset.before)
  /\ "Removed temporary asset" \in Logged
  /\ heap[tempSource] # EmptySource
  /\ ~HasNow(lastAsset.path)

\* C14: makeImageFromBytes(path, bytes) with a path under the prefix raises when
\* decoding raises and when the decoded image has width 0 or height 0 (that
\* error carries the number of input bytes); every such failure leaves the
\* store, its contents and the registration under "/temp" as they were; on
\* success, and only then, the image is stored at path and path is returned.
C14_ImageDecodeFailure ==
  (lastAsset.name = "makeImageFromBytes" /\ beginsWith(lastAsset.path, TempPrefix)) =>
    LET image == readPng(lastAsset.arg)
    IN  IF image = None
        THEN lastAsset.err = "decode" /\ Untouched /\ lastAsset.log = <<>>
        ELSE IF image[1].w = 0 \/ image[1].h = 0
        THEN /\ lastAsset.err = "zero-area"
             /\ lastAsset.ret = Some(Len(lastAsset.arg))
             /\ Untouched
             /\ lastAsset.log = <<>>
        ELSE /\ lastAsset.err = "none"
             /\ lastAsset.ret = Some(lastAsset.path)
             /\ EntryNow = ImageEntry(image[1])
             /\ registered = tempSource

\* An image of width 0 and height 1 was rejected while the store held entries.
C14_Witness ==
  /\ lastAsset.name = "makeImageFromBytes"
  /\ beginsWith(lastAsset.path, TempPrefix)
  /\ lastAsset.err = "zero-area"
  /\ readPng(lastAsset.arg) = Some([w |-> 0, h |-> 1])
  /\ lastAsset.ret = Some(3)
  /\ initialized
  /\ heap[tempSource] # EmptySource

\* hasTemporaryAsset(p) returned whether p was in the store.
ProbeAnswer ==
  /\ lastAsset.err = "none"
  /\ lastAsset.ret = Some(lastAsset.path \in DOMAIN StoreOf(lastAsset.before))

\* C15 (as stated): hasTemporaryAsset(p) returns whether p is in the store and
\* changes nothing: not the contents, not whether a store exists, not what is
\* registered.
C15_HasIsPure ==
  lastAsset.name = "hasTemporaryAsset" => ProbeAnswer /\ Untouched

\* C15 (amended): hasTemporaryAsset(p) returns whether p is in the store and
\* changes no entry; once the store exists it changes nothing at all, and as the
\* first use of the store it constructs the empty store, registers it under
\* "/temp" and logs the initialization.
C15_HasIsPureAmended ==
  lastAsset.name = "hasTemporaryAsset" =>
    /\ ProbeAnswer
    /\ heap[tempSource] = StoreOf(lastAsset.before)
    /\ IF lastAsset.before.initialized
       THEN Untouched /\ lastAsset.log = <<>>
       ELSE /\ initialized
            /\ registered = tempSource
            /\ tempSource \notin DOMAIN lastAsset.before.heap
            /\ lastAsset.log = <<"Initialized temporary asset source">>

\* hasTemporaryAsset found a path in a store that existed, and changed nothing.
C15_Witness ==
  /\ lastAsset.name = "hasTemporaryAsset"
  /\ lastAsset.before.initialized
  /\ lastAsset.ret = Some(TRUE)
  /\ Untouched

\* C16: when two threads make their first calls concurrently the store is
\* constructed once and registered once, every call works on that one store, and
\* no caller holds a store other than the shared one.
C16_SingleStoreUnderConcurrency ==
  /\ Cardinality(DOMAIN heap) <= 1
  /\ \A t \in Threads : held[t] # 0 => held[t] = tempSource
  /\ registered # 0 => registered = tempSource

\* A bound function was called and has returned or raised.
Called == bound.done /\ bound.name # "none"

\* The positions of the output-reference parameters of b.
PointerParams(b) == {k \in 1..Len(b.params) : b.params[k].macro \in PointerMacros}

\* The number of values the native function's own return contributes.
PrimaryCount(b) == IF b.call = "CALL_FUNCTION" THEN 1 ELSE 0

\* C17: a bound function with one output-reference argument returns, when the
\* script supplied a value for it, exactly one extra value, the referenced native
\* value after the call, whatever the primary return value is; when the script
\* supplied none for an optional one it returns no extra value and the native
\* function is still invoked.
C17_OutputReferenceWriteBack ==
  (Called /\ bound.result.err = "none") =>
    LET b == Binding(bound.name)
        r == bound.result
    IN  \A k \in PointerParams(b) :
          PointerParams(b) = {k} =>
            IF ArgAt(bound.args, k) # Nil
            THEN /\ Len(r.rets) = PrimaryCount(b) + 1
                 /\ r.rets[Len(r.rets)] = pushNative(r.after[k])
            ELSE /\ Len(r.rets) = PrimaryCount(b)
                 /\ r.invoked

\* Checkbox answered false and left v alone; v came back as the one extra value.
C17_Witness ==
  /\ Called
  /\ bound.name = "Checkbox"
  /\ bound.args = <<StringValue("s"), BoolValue(TRUE)>>
  /\ bound.result.env = [ret |-> FALSE, writes |-> FALSE]
  /\ bound.result.rets = <<BoolValue(FALSE), BoolValue(TRUE)>>

\* The write-backs of the requested output references, in declaration order.
RECURSIVE WriteBacks(_, _, _)
WriteBacks(b, after, k) ==
  IF k > Len(b.params) THEN <<>>
  ELSE (IF b.params[k].macro \in PointerMacros /\ after[k] # Null
        THEN <<pushNative(after[k])>> ELSE <<>>) \o WriteBacks(b, after, k + 1)

\* The scalar components of a composite native value, in component order.
Components(v) ==
  IF v.t = "ImVec2" THEN <<NumberValue(v.x), NumberValue(v.y)>>
  ELSE <<NumberValue(v.x), NumberValue(v.y), NumberValue(v.z), NumberValue(v.w)>>

\* C18: the values a bound call returns are the primary return value, if the
\* native function has one, followed by one value per requested output
\* reference in the order of declaration.
C18_ReturnOrder ==
  (Called /\ bound.result.err = "none") =>
    LET b == Binding(bound.name)
        r == bound.result
    IN  r.rets = (IF b.call = "CALL_FUNCTION" /\ b.ret = "bool" THEN <<BoolValue(r.env.ret)>>
                  ELSE IF b.call = "CALL_FUNCTION" THEN Components(NativeReturn(b, r.env))
                  ELSE <<>>)
                   \o WriteBacks(b, r.after, 1)

\* DragFloatRange2 returned (ret, v_current_min, v_current_max), both written.
C18_Witness ==
  /\ Called
  /\ bound.name = "DragFloatRange2"
  /\ bound.result.env = [ret |-> TRUE, writes |-> TRUE]
  /\ bound.result.rets = <<BoolValue(TRUE), NumberValue(3), NumberValue(7)>>

\* The arguments with the declared default written out at position k.
WithDefault(b, args, k) ==
  [i \in 1..(IF Len(args) > k THEN Len(args) ELSE k) |->
     IF i = k THEN CHOOSE v \in DefaultValue(b.params[k]) : TRUE ELSE ArgAt(args, i)]

\* C19: a call that omits an optional argument invokes the native function with
\* the same arguments, pushes the same end-stack slot and returns the same
\* values as the call that passes the declared default explicitly.
C19_OptionalDefaultLaw ==
  Called =>
    LET b == Binding(bound.name)
        r == bound.result
    IN  \A k \in 1..Len(b.params) :
          (ArgAt(bound.args, k) = Nil /\ DefaultValue(b.params[k]) # {}) =>
            LET explicit == Marshal(b, WithDefault(b, bound.args, k), <<>>, r.env)
            IN  /\ explicit.err = r.err
                /\ explicit.invoked = r.invoked
                /\ explicit.native = r.native
                /\ explicit.stack = r.stack
                /\ explicit.rets = r.rets

\* BeginChild("s"), its three optional arguments omitted, opened a child with
\* the declared defaults and pushed slot 2.
C19_Witness ==
  /\ Called
  /\ bound.args = <<StringValue("s")>>
  /\ bound.name = "BeginChild"
  /\ bound.result.native = <<NativeString("s"), ImVec2(0, 0), NativeInt(0), NativeInt(0)>>
  /\ endStack = <<2>>

\* Some required argument of the call is missing, or some argument has a value
\* of the wrong type.
BadCall(b, args) ==
  \E k \in 1..Len(b.params) :
    \/ b.params[k].macro \in RequiredMacros /\ ArgAt(args, k) = Nil
    \/ ArgAt(args, k) # Nil /\ toNative(NativeType(b.params[k].macro), ArgAt(args, k)) = CoercionFailure

\* C20: a call that lacks a required argument or passes a value of the wrong
\* type raises before the native function is invoked: no native call, no
\* default in place of the argument, no return value, the shadow stack as it was;
\* BeginTable without its columns pushes no slot.
C20_MarshallingErrors ==
  Called =>
    /\ BadCall(Binding(bound.name), bound.args) =>
         /\ bound.result.err \in {"arity", "type"}
         /\ ~bound.result.invoked
         /\ bound.result.native = <<>>
         /\ bound.result.rets = <<>>
         /\ endStack = <<>>
    /\ (bound.name = "BeginTable" /\ ArgAt(bound.args, 2) = Nil) =>
         /\ bound.result.err \in {"arity", "type"}
         /\ ~bound.result.invoked
         /\ endStack = <<>>

\* BeginTable("s") raised the arity error for `columns`.
C20_Witness ==
  /\ Called
  /\ bound.name = "BeginTable"
  /\ bound.args = <<StringValue("s")>>
  /\ bound.result.err = "arity"
  /\ bound.result.errArg = "columns"
  /\ endStack = <<>>

\* The position, in the stack before the last call, of the first entry from the
\* top whose slot is the one the call named.
UnwindTarget ==
  CHOOSE k \in 1..Len(lastCall.before) :
    /\ lastCall.before[k] = lastCall.count
    /\ \A j \in (k + 1)..Len(lastCall.before) : lastCall.before[j] # lastCall.count

\* C21: ForcedUnwindToDepth(slot) pops every entry from the top down to and
\* including the first one whose slot is `slot`, invokes the closing function of
\* each popped entry in pop order, and leaves the entries below unchanged.
C21_ForcedUnwindToDepth ==
  (lastCall.name = "ForcedUnwindToDepth" /\ ~lastCall.err) =>
    LET popped == Reversed(SubSeq(lastCall.before, UnwindTarget, Len(lastCall.before)))
    IN  /\ endStack = SubSeq(lastCall.before, 1, UnwindTarget - 1)
        /\ Len(lastCall.invoked) = Len(popped)
        /\ \A i \in 1..Len(popped) :
             /\ popped[i] \in DOMAIN END_STACK_OPTION
             /\ lastCall.invoked[i] = END_STACK_OPTION[popped[i]]

\* C22: in every reachable state every key of the content store begins with
\* "/temp/", whatever create, remove and clear calls have been made.
C22_KeysHavePrefix ==
  \A id \in DOMAIN heap : \A p \in DOMAIN heap[id] : HasTempPrefix(p)

\* The store holds two keys, and the last call was a create that was refused
\* for its path.
C22_Witness ==
  /\ initialized
  /\ Cardinality(DOMAIN heap[tempSource]) >= 2
  /\ lastAsset.name \in {"makeAsset", "makeAssetFromBytes", "makeImageFromBytes"}
  /\ lastAsset.err = "prefix"
  /\ ~HasTempPrefix(lastAsset.path)

\* C23: a native result of composite type reaches the script as its scalar
\* components, one value each, in component order and nothing else: an ImVec2 as
\* (x, y), an ImVec4 as (x, y, z, w).
C23_CompositeReturn ==
  (Called /\ bound.result.err = "none") =>
    LET ret == NativeReturn(Binding(bound.name), bound.result.env)
    IN  /\ ret.t = "ImVec2" =>
             bound.result.rets = <<NumberValue(ret.x), NumberValue(ret.y)>>
        /\ ret.t = "ImVec4" =>
             bound.result.rets =
               <<NumberValue(ret.x), NumberValue(ret.y), NumberValue(ret.z), NumberValue(ret.w)>>

\* GetWindowPos returned the two components of its ImVec2.
C23_Witness ==
  /\ Called
  /\ bound.name = "GetWindowPos"
  /\ bound.result.invoked
  /\ bound.result.rets = <<NumberValue(2), NumberValue(4)>>

\* C24: a closing binding invokes its native closing function only when the
\* shadow stack is non-empty and its top entry has the binding's slot; otherwise
\* the native closing function is not invoked.
C24_CloseGuardsNativeCall ==
  \A b \in ClosingBindings :
    (/\ lastCall.name = b.name
     /\ \/ lastCall.before = <<>>
        \/ lastCall.before[Len(lastCall.before)] # b.slot) =>
      /\ lastCall.err
      /\ lastCall.invoked = <<>>

\* C25: every slot an opening binding pushes has a closing function registered
\* in the end-stack option table: every entry that is ever on the shadow stack
\* can be closed by FrameBoundaryUnwind.
C25_PushedSlotsRegistered ==
  \A i \in 1..Len(endStack) : endStack[i] \in DOMAIN END_STACK_OPTION

\* The slots the two tooltip openers push.
TooltipSlots == {b.slot : b \in {o \in OpeningBindings : o.name \in {"BeginTooltip", "BeginItemTooltip"}}}

\* C26: EndTooltip called on the entry BeginItemTooltip pushed, like on the one
\* BeginTooltip pushed, raises no stack-discipline error and leaves the shadow
\* stack as it was before the opener was called.
C26_ItemTooltipCloses ==
  (/\ lastCall.name = "EndTooltip"
   /\ lastCall.before # <<>>
   /\ lastCall.before[Len(lastCall.before)] \in TooltipSlots) =>
    /\ ~lastCall.err
    /\ endStack = SubSeq(lastCall.before, 1, Len(lastCall.before) - 1)

\* How many entries of seq are x.
CountOf(seq, x) == Cardinality({i \in DOMAIN seq : seq[i] = x})

\* C27: while the script has not popped more style variables than it pushed,
\* the slot-3 entries on the shadow stack are as many as the style variables
\* still pushed natively, so that FrameBoundaryUnwind invokes the native
\* PopStyleVar exactly that many times.
C27_StyleVarCount ==
  /\ (phase = "running" /\ ~nativeFault) =>
       CountOf(endStack, 3) = CountOf(nativeOpen, "PopStyleVar")
  /\ (lastCall.name = "FrameBoundaryUnwind" /\ ~nativeFault) =>
       /\ CountOf(lastCall.invoked, "PopStyleVar") = CountOf(lastCall.before, 3)
       /\ CountOf(nativeOpen, "PopStyleVar") = 0

\* The bindings that contain POP_END_STACK(s).
PoppersOf(s) == {b \in ClosingBindings : b.slot = s}

\* C28: for every slot of the end-stack option table exactly one binding pops
\* the slot, and the native function that binding invokes is the closing
\* function registered for the slot; no slot outside the table is popped.  A
\* closing binding that popped its entry has invoked the function the unwind
\* would have invoked for that entry.
C28_CloserMatchesPopper ==
  /\ \A s \in DOMAIN END_STACK_OPTION :
       /\ Cardinality(PoppersOf(s)) = 1
       /\ \A b \in PoppersOf(s) : b.name = END_STACK_OPTION[s]
  /\ \A b \in ClosingBindings : b.slot \in DOMAIN END_STACK_OPTION
  /\ \A b \in ClosingBindings :
       (lastCall.name = b.name /\ ~lastCall.err) =>
         lastCall.invoked = EndStackCalls(<<lastCall.before[Len(lastCall.before)]>>)

\* A window closed by End, its entry of slot 1 on top of another entry.
C28_Witness ==
  /\ lastCall.name = "End"
  /\ ~lastCall.err
  /\ Len(lastCall.before) = 2
  /\ lastCall.before[2] = 1
  /\ lastCall.invoked = <<"End">>
  /\ endStack = SubSeq(lastCall.before, 1, 1)

\* The parameters of b declared before its first optional one.
LeadingRequired(b) ==
  {k \in 1..Len(b.params) :
     \A j \in 1..k : b.params[j].macro \in RequiredMacros}

\* The call supplies exactly the leading required arguments of b, well typed.
OnlyLeadingRequired(b, args) ==
  /\ Len(args) = Cardinality(LeadingRequired(b))
  /\ \A k \in 1..Len(args) : args[k] \in Good(b.params[k])

\* C29: in the descriptor of a bound function no required argument line
\* follows an optional one, so a call that supplies only the leading required
\* arguments succeeds, every omitted argument reaching the native function as
\* its declared default.
C29_OptionalsTrail ==
  \A b \in BoundFunctions :
    (Called /\ bound.name = b.name /\ OnlyLeadingRequired(b, bound.args)) =>
      /\ \A k \in 1..Len(b.params) :
           k \notin LeadingRequired(b) => b.params[k].macro \notin RequiredMacros
      /\ bound.result.err = "none"
      /\ bound.result.invoked
      /\ \A i \in 1..Len(b.pass) :
           ParamIndex(b, b.pass[i]) > Len(bound.args) =>
             bound.result.native[i] = b.params[ParamIndex(b, b.pass[i])].default

\* The path resolves through the source registered under "/temp".
Resolvable(path) == registered \in DOMAIN heap /\ SourceContains(heap[registered], path)

\* The last callback called getTemporaryAssetSource: a get, has, remove or clear
\* callback, a create callback that returned, or makeAsset past its prefix check.
ReachedSource ==
  \/ lastAsset.name \in {"getTemporaryAsset", "getTemporaryImage", "hasTemporaryAsset",
                         "removeTemporaryAsset", "clearTemporaryAssets"}
  \/ lastAsset.name # "none" /\ lastAsset.err = "none"
  \/ lastAsset.name = "makeAsset" /\ lastAsset.err # "prefix"

\* C30: the source registered under "/temp" is the store the callbacks read and
\* write.  Nothing is registered before the first callback that reaches
\* getTemporaryAssetSource; that callback constructs and registers the store;
\* from then on no callback changes which instance is the store or which one is
\* registered, a create callback that returns leaving that same instance
\* registered; and hasTemporaryAsset(p) answers true exactly for the paths that
\* resolve through the registered source.
C30_RegisteredIsStore ==
  /\ ~initialized => (registered = 0 /\ heap = <<>>)
  /\ initialized => (registered = tempSource /\ DOMAIN heap = {tempSource})
  /\ ReachedSource => initialized
  /\ (~lastAsset.before.initialized /\ initialized) =>
       /\ ReachedSource
       /\ lastAsset.log # <<>>
       /\ lastAsset.log[1] = "Initialized temporary asset source"
  /\ lastAsset.before.initialized =>
       /\ tempSource = lastAsset.before.tempSource
       /\ registered = lastAsset.before.registered
  /\ \A p \in Paths : HasNow(p) <=> Resolvable(p)
  /\ (lastAsset.name = "hasTemporaryAsset") =>
       (lastAsset.ret = Some(TRUE) <=> Resolvable(lastAsset.path))

\* A create callback that returned after clearTemporaryAssets, the store already
\* holding another entry: the instance registered is the one registered before.
C30_Witness ==
  /\ lastAsset.name \in {"makeAsset", "makeAssetFromBytes", "makeImageFromBytes"}
  /\ lastAsset.err = "none"
  /\ lastAsset.afterClear
  /\ lastAsset.before.initialized
  /\ registered = lastAsset.before.registered
  /\ registered = tempSource
  /\ Resolvable(lastAsset.path)
  /\ Cardinality(DOMAIN heap[registered]) >= 2

====
